---- MODULE Spec2Model ----
(***************************************************************************)
(* Model of the policy / claims data-access API.                           *)
(*                                                                         *)
(* Spec: one list request, query parameters -> FastAPI Query validation -> *)
(* PolicyFilters / ClaimsFilters construction -> build_policy_query /      *)
(* build_claims_query.                                                     *)
(* ApiSpec: one request on any endpoint, from its bearer credential through *)
(* the session dependency, the handler and the executor calls to the       *)
(* response.                                                               *)
(* LoopSpec: several data requests served by the one event loop.           *)
(*                                                                         *)
(* Strings are sequences of one-character strings, so that split, strip    *)
(* and upper are computed character by character as Python computes them.  *)
(* Optional values are tagged records: [t |-> "none"], [t |-> "int", v |-> 0]. *)
(***************************************************************************)
EXTENDS Integers, Sequences, FiniteSets, TLC

\* one list request, from its query parameters to its compiled query
VARIABLES kind, params, args, pc, filters, query, status

\* the requests in flight on the server: what each asks, where it stands, the
\* request task that has the event loop, the process-wide Snowpark session,
\* the executor calls, the work done, the responses and the error log
VARIABLES req, rpc, loop, session, calls, work, resp, logs

\* the session manager seen from inside: its fields, the warehouse sessions
\* created so far, and the calls made on it
VARIABLES mgr, sessions, callers

listVars == <<kind, params, args, pc, filters, query, status>>
apiVars == <<req, rpc, loop, session, calls, work, resp, logs>>
mgrVars == <<mgr, sessions, callers>>
vars == <<kind, params, args, pc, filters, query, status,
          req, rpc, loop, session, calls, work, resp, logs,
          mgr, sessions, callers>>

(***************************************************************************)
(* Bounds of the model.                                                    *)
(***************************************************************************)
\* how many query parameters one request sets to a non-default value
MaxSet == 2
\* integer and float filter values range over 0..MaxId
MaxId == 1

(***************************************************************************)
(* Program constants.                                                      *)
(***************************************************************************)
MinLimit == 1
MaxLimit == 1000
DefaultLimit == 100
MinOffset == 0
DefaultOffset == 0
HTTP_422 == 422
HTTP_500 == 500

(***************************************************************************)
(* Python values.                                                          *)
(***************************************************************************)
None == [t |-> "none"]
PyInt(n) == [t |-> "int", v |-> n]
PyFloat(n) == [t |-> "float", v |-> n]
PyStr(s) == [t |-> "str", v |-> s]
PyDate(y, m, d) == [t |-> "date", v |-> <<y, m, d>>]

\* bool(value): None, "", 0 and 0.0 are falsy; a datetime.date is always truthy
Truthy(x) ==
  CASE x.t = "none" -> FALSE
    [] x.t = "str" -> x.v # <<>>
    [] x.t = "int" -> x.v # 0
    [] x.t = "float" -> x.v # 0
    [] x.t = "date" -> TRUE

\* mutant: a truthiness test where the code tests "is not None"
IsNotNone_Truthy(x) == Truthy(x)

\* value is not None
IsNotNone(x) == x.t # "none"

(***************************************************************************)
(* Python string methods.                                                  *)
(***************************************************************************)
LowerCase == <<"a","b","c","d","e","f","g","h","i","j","k","l","m",
               "n","o","p","q","r","s","t","u","v","w","x","y","z">>
UpperCase == <<"A","B","C","D","E","F","G","H","I","J","K","L","M",
               "N","O","P","Q","R","S","T","U","V","W","X","Y","Z">>
Whitespace == {" ", "\t", "\n", "\r"}
Digits == <<"0","1","2","3","4","5","6","7","8","9">>

UpperChar(c) ==
  IF \E i \in 1..Len(LowerCase) : LowerCase[i] = c
  THEN UpperCase[CHOOSE i \in 1..Len(LowerCase) : LowerCase[i] = c]
  ELSE c

\* str.upper()
Upper(s) == [i \in 1..Len(s) |-> UpperChar(s[i])]

\* str.strip(): drop leading and trailing whitespace
RECURSIVE LStrip(_)
LStrip(s) == IF s # <<>> /\ Head(s) \in Whitespace THEN LStrip(Tail(s)) ELSE s
RECURSIVE RStrip(_)
RStrip(s) ==
  IF s # <<>> /\ s[Len(s)] \in Whitespace THEN RStrip(SubSeq(s, 1, Len(s) - 1)) ELSE s
Strip(s) == RStrip(LStrip(s))

\* str.split(sep): always at least one segment, empty segments kept
RECURSIVE Split(_, _)
Split(s, sep) ==
  IF \E i \in 1..Len(s) : s[i] = sep
  THEN LET i == CHOOSE k \in 1..Len(s) : s[k] = sep /\ \A j \in 1..(k - 1) : s[j] # sep
       IN <<SubSeq(s, 1, i - 1)>> \o Split(SubSeq(s, i + 1, Len(s)), sep)
  ELSE <<s>>

IsDigit(c) == \E i \in 1..Len(Digits) : Digits[i] = c
DigitVal(c) == (CHOOSE i \in 1..Len(Digits) : Digits[i] = c) - 1

(***************************************************************************)
(* datetime.date parsed from an ISO calendar date string "YYYY-MM-DD".     *)
(***************************************************************************)
IsLeap(y) == (y % 4 = 0 /\ y % 100 # 0) \/ y % 400 = 0
DaysInMonth(y, m) ==
  IF m = 2 THEN (IF IsLeap(y) THEN 29 ELSE 28)
  ELSE IF m \in {4, 6, 9, 11} THEN 30 ELSE 31

Num2(s, i) == 10 * DigitVal(s[i]) + DigitVal(s[i + 1])
Num4(s, i) == 100 * Num2(s, i) + Num2(s, i + 2)

IsIsoDate(s) ==
  /\ Len(s) = 10
  /\ s[5] = "-" /\ s[8] = "-"
  /\ \A i \in {1, 2, 3, 4, 6, 7, 9, 10} : IsDigit(s[i])
  /\ Num2(s, 6) \in 1..12
  /\ Num2(s, 9) \in 1..DaysInMonth(Num4(s, 1), Num2(s, 6))

ParseDate(s) == PyDate(Num4(s, 1), Num2(s, 6), Num2(s, 9))

\* date <= date
DateLe(a, b) ==
  \/ a.v[1] < b.v[1]
  \/ a.v[1] = b.v[1] /\ a.v[2] < b.v[2]
  \/ a.v[1] = b.v[1] /\ a.v[2] = b.v[2] /\ a.v[3] <= b.v[3]

(***************************************************************************)
(* Literals of the program and of the requests.                            *)
(***************************************************************************)
s_empty == <<>>
s_asc == <<"a","s","c">>
s_desc == <<"d","e","s","c">>
s_ASC == <<"A","S","C">>
s_POLICY_ID == <<"P","O","L","I","C","Y","_","I","D">>
s_RFB_ID == <<"R","F","B","_","I","D">>
s_carrier_name == <<"c","a","r","r","i","e","r","_","n","a","m","e">>
s_CARRIER_NAME == <<"C","A","R","R","I","E","R","_","N","A","M","E">>
s_policy_id == <<"p","o","l","i","c","y","_","i","d">>
s_CA == <<"C","A">>
s_NY == <<"N","Y">>
s_sp_NY == <<" ","N","Y">>
s_CA_NY == <<"C","A",",","N","Y">>
s_CA_sp_NY == <<"C","A",","," ","N","Y">>
s_CA_CA == <<"C","A",",","C","A">>
s_comma == <<",">>
s_a_b == <<"a",","," ","b">>
s_Smith == <<"S","m","i","t","h">>
s_fields2 == s_policy_id \o <<",", " ">> \o s_carrier_name
s_comma_sp == <<" ", ",", " ">>
s_sp == <<" ">>
d_2024_03_15 == <<"2","0","2","4","-","0","3","-","1","5">>
d_2024_01_01 == <<"2","0","2","4","-","0","1","-","0","1">>
d_2024_02_30 == <<"2","0","2","4","-","0","2","-","3","0">>

(***************************************************************************)
(* The query parameters of the two list endpoints, in the order of the     *)
(* builder, and the kind of each.                                          *)
(***************************************************************************)
Kinds == {"policy", "claims"}

PolicyIntFields == {"policy_id", "insured_life_id"}
PolicyStrFields == {"policy_dim_id", "insured_city", "insured_zip", "environment",
                    "claim_status_cd"}
PolicyMultiFields == {"insured_state", "policy_residence_state", "carrier_name"}
PolicyDateFields == {"from_date", "to_date"}
PolicyFloatFields == {"min_annualized_premium", "max_annualized_premium"}

ClaimsIntFields == {"rfb_id", "episode_of_benefit_id", "claim_type_cd"}
ClaimsStrFields == {"policy_dim_id", "policy_number", "claimant_name", "decision"}
ClaimsMultiFields == {"life_state", "issue_state", "policy_residence_state", "carrier_name"}
ClaimsDateFields == {"from_snapshot_date", "to_snapshot_date",
                     "from_certification_date", "to_certification_date"}

IntFields(k) == IF k = "policy" THEN PolicyIntFields ELSE ClaimsIntFields
StrFields(k) == IF k = "policy" THEN PolicyStrFields ELSE ClaimsStrFields
MultiFields(k) == IF k = "policy" THEN PolicyMultiFields ELSE ClaimsMultiFields
DateFields(k) == IF k = "policy" THEN PolicyDateFields ELSE ClaimsDateFields
FloatFields(k) == IF k = "policy" THEN PolicyFloatFields ELSE {}

FilterFields(k) ==
  IntFields(k) \cup StrFields(k) \cup MultiFields(k) \cup DateFields(k) \cup FloatFields(k)
ControlFields == {"limit", "offset", "sort_by", "sort_order", "fields"}
ParamNames(k) == FilterFields(k) \cup ControlFields

\* the record type's default sort column
DefaultSortBy(k) == IF k = "policy" THEN s_POLICY_ID ELSE s_RFB_ID

\* Query(None), Query(100, ...), Query(0, ...), Query("POLICY_ID"), Query("asc")
QueryDefaults(k) ==
  [p \in ParamNames(k) |->
     CASE p = "limit" -> DefaultLimit
       [] p = "offset" -> DefaultOffset
       [] p = "sort_by" -> PyStr(DefaultSortBy(k))
       [] p = "sort_order" -> PyStr(s_asc)
       [] OTHER -> None]

\* the non-default values a request may give to a parameter
Alternatives(k, p) ==
  CASE p \in IntFields(k) -> {PyInt(n) : n \in 0..MaxId}
    [] p \in FloatFields(k) -> {PyFloat(n) : n \in 0..MaxId}
    [] p \in StrFields(k) -> {PyStr(s) : s \in {s_empty, s_Smith, s_a_b}}
    [] p \in MultiFields(k) ->
         {PyStr(s) : s \in {s_empty, s_CA, s_CA_NY, s_CA_sp_NY, s_CA_CA, s_comma}}
    [] p \in DateFields(k) -> {PyStr(s) : s \in {d_2024_03_15, d_2024_01_01, d_2024_02_30}}
    [] p = "limit" -> {MinLimit - 1, MinLimit, 50, MaxLimit, MaxLimit + 1}
    [] p = "offset" -> {MinOffset - 1, 1, 25}
    [] p = "sort_by" -> {PyStr(s) : s \in {s_empty, s_carrier_name, s_sp}}
    [] p = "sort_order" -> {PyStr(s) : s \in {s_desc, s_ASC}}
    [] p = "fields" -> {PyStr(s) : s \in {s_empty, s_policy_id, s_fields2, s_comma_sp}}

\* the request is the defaults r with at most n more parameters set
RECURSIVE Composed(_, _, _)
Composed(k, r, n) ==
  \/ params = r
  \/ /\ n > 0
     /\ \E p \in ParamNames(k) : \E v \in Alternatives(k, p) :
          Composed(k, [r EXCEPT ![p] = v], n - 1)

(***************************************************************************)
(* Request validation: the Query(...) declarations of get_policies and     *)
(* get_claims.  A parameter is accepted unchanged or the request is        *)
(* rejected (RequestValidationError, answered 422).                        *)
(***************************************************************************)
Accepted(v) == [ok |-> TRUE, v |-> v]
Rejected(v) == [ok |-> FALSE, v |-> v]

\* mutant: an out-of-range limit clamped to the nearest bound
QueryLimit_Clamped(n) ==
  Accepted(IF n < MinLimit THEN MinLimit ELSE IF n > MaxLimit THEN MaxLimit ELSE n)

\* limit: int = Query(100, ge=1, le=1000)
QueryLimit(n) == IF n >= MinLimit /\ n <= MaxLimit THEN Accepted(n) ELSE Rejected(n)

\* offset: int = Query(0, ge=0)
QueryOffset(n) == IF n >= MinOffset THEN Accepted(n) ELSE Rejected(n)

\* sort_order: str = Query("asc", regex="^(asc|desc)$")
QuerySortOrder(x) == IF x.v \in {s_asc, s_desc} THEN Accepted(x) ELSE Rejected(x)

QueryParam(p, x) ==
  CASE p = "limit" -> QueryLimit(x)
    [] p = "offset" -> QueryOffset(x)
    [] p = "sort_order" -> QuerySortOrder(x)
    [] OTHER -> Accepted(x)

QueryParamsValid(k, ps) == \A p \in ParamNames(k) : QueryParam(p, ps[p]).ok
QueryParamsValues(k, ps) == [p \in ParamNames(k) |-> QueryParam(p, ps[p]).v]

(***************************************************************************)
(* PolicyFilters(...) / ClaimsFilters(...): the pydantic models.  A field  *)
(* is validated and converted, or the construction raises.                 *)
(***************************************************************************)
\* limit: int = Field(default=100, le=1000, ge=1)
FieldLimit(n) == IF n >= MinLimit /\ n <= MaxLimit THEN Accepted(n) ELSE Rejected(n)

\* offset: int = Field(default=0, ge=0)
FieldOffset(n) == IF n >= MinOffset THEN Accepted(n) ELSE Rejected(n)

\* sort_order: Literal["asc", "desc"]
FieldSortOrder(x) == IF x.v \in {s_asc, s_desc} THEN Accepted(x) ELSE Rejected(x)

\* Optional[date]: None stays None, a string is parsed as an ISO calendar date
FieldDate(x) ==
  IF x.t = "none" THEN Accepted(x)
  ELSE IF IsIsoDate(x.v) THEN Accepted(ParseDate(x.v)) ELSE Rejected(x)

FilterField(k, p, x) ==
  CASE p = "limit" -> FieldLimit(x)
    [] p = "offset" -> FieldOffset(x)
    [] p = "sort_order" -> FieldSortOrder(x)
    [] p \in DateFields(k) -> FieldDate(x)
    [] OTHER -> Accepted(x)

FiltersValid(k, a) == \A p \in ParamNames(k) : FilterField(k, p, a[p]).ok
FiltersOf(k, a) == [p \in ParamNames(k) |-> FilterField(k, p, a[p]).v]

(***************************************************************************)
(* The compiled query: the chain of DataFrame calls, as a sequence of      *)
(* directives.                                                             *)
(***************************************************************************)
Table(name) == [d |-> "table", name |-> name]
Filter(c, op, val) == [d |-> "filter", col |-> c, op |-> op, val |-> val]
Select(cols) == [d |-> "select", cols |-> cols]
Sort(c, desc) == [d |-> "sort", col |-> c, desc |-> desc]
Limit(n) == [d |-> "limit", n |-> n]
Offset(n) == [d |-> "offset", n |-> n]

\* if filters.x is not None: df = df.filter(col(C) == filters.x)
EqIfNotNone(x, c) == IF IsNotNone(x) THEN <<Filter(c, "eq", x)>> ELSE <<>>

\* if filters.x: df = df.filter(col(C) == filters.x)
EqIfSet(x, c) == IF Truthy(x) THEN <<Filter(c, "eq", x)>> ELSE <<>>

\* mutant: a single segment compiled as an equality
InIfSet_SingleIsEq(x, c) ==
  IF Truthy(x)
  THEN (IF Len(Split(x.v, ",")) = 1
        THEN <<Filter(c, "eq", x)>>
        ELSE <<Filter(c, "in", Split(x.v, ","))>>)
  ELSE <<>>

\* mutant: the segments stripped, as the projection's are
InIfSet_Stripped(x, c) ==
  IF Truthy(x)
  THEN <<Filter(c, "in", [i \in 1..Len(Split(x.v, ",")) |-> Strip(Split(x.v, ",")[i])])>>
  ELSE <<>>

\* if filters.x: df = df.filter(col(C).in_(filters.x.split(',')))
InIfSet(x, c) == IF Truthy(x) THEN <<Filter(c, "in", Split(x.v, ","))>> ELSE <<>>

\* mutant: the claimant name compared for equality
ContainsIfSet_Eq(x, c) == IF Truthy(x) THEN <<Filter(c, "eq", x)>> ELSE <<>>

\* if filters.claimant_name: df = df.filter(col(C).contains(filters.claimant_name))
ContainsIfSet(x, c) == IF Truthy(x) THEN <<Filter(c, "contains", x)>> ELSE <<>>

\* if filters.from_x: df = df.filter(col(C) >= filters.from_x)
GeIfSet(x, c) == IF Truthy(x) THEN <<Filter(c, "ge", x)>> ELSE <<>>

\* mutant: the upper bound compiled with the lower bound's operator
LeIfSet_Ge(x, c) == IF Truthy(x) THEN <<Filter(c, "ge", x)>> ELSE <<>>

\* if filters.to_x: df = df.filter(col(C) <= filters.to_x)
LeIfSet(x, c) == IF Truthy(x) THEN <<Filter(c, "le", x)>> ELSE <<>>

\* if filters.min_x is not None: df = df.filter(col(C) >= filters.min_x)
GeIfNotNone(x, c) == IF IsNotNone(x) THEN <<Filter(c, "ge", x)>> ELSE <<>>

\* if filters.max_x is not None: df = df.filter(col(C) <= filters.max_x)
LeIfNotNone(x, c) == IF IsNotNone(x) THEN <<Filter(c, "le", x)>> ELSE <<>>

\* mutant: the segments upper-cased but not stripped
SelectedFields_NoStrip(s) ==
  LET parts == Split(s, ",") IN [i \in 1..Len(parts) |-> Upper(parts[i])]

\* [f.strip().upper() for f in filters.fields.split(',')]
SelectedFields(s) ==
  LET parts == Split(s, ",") IN [i \in 1..Len(parts) |-> Upper(Strip(parts[i]))]

\* what a builder would leave in place of a directive if it raised
Raise(exc) == [d |-> "raise", exc |-> exc]

\* mutant: a blank column name is refused while the query is assembled
FieldSelection_BlankRaises(f) ==
  IF Truthy(f.fields)
  THEN (IF \E i \in 1..Len(SelectedFields(f.fields.v)) : SelectedFields(f.fields.v)[i] = s_empty
        THEN <<Raise("ValueError")>>
        ELSE <<Select(SelectedFields(f.fields.v))>>)
  ELSE <<>>

\* if filters.fields: df = df.select([col(field) for field in selected_fields])
FieldSelection(f) ==
  IF Truthy(f.fields) THEN <<Select(SelectedFields(f.fields.v))>> ELSE <<>>

\* mutant: the two branches of the direction test exchanged
Sorting_Flipped(f) ==
  IF Truthy(f.sort_by)
  THEN <<Sort(Upper(f.sort_by.v), f.sort_order.v # s_desc)>>
  ELSE <<>>

\* if filters.sort_by: df.sort(col(sort_by.upper()).desc() / .asc())
Sorting(f) ==
  IF Truthy(f.sort_by)
  THEN <<Sort(Upper(f.sort_by.v), f.sort_order.v = s_desc)>>
  ELSE <<>>

\* mutant: the offset applied whatever its value
Pagination_OffsetAlways(f) == <<Limit(f.limit), Offset(f.offset)>>

\* mutant: the rows are skipped before the page is cut
Pagination_OffsetFirst(f) ==
  (IF f.offset > 0 THEN <<Offset(f.offset)>> ELSE <<>>) \o <<Limit(f.limit)>>

\* df = df.limit(filters.limit); if filters.offset > 0: df = df.offset(filters.offset)
Pagination(f) ==
  <<Limit(f.limit)>> \o (IF f.offset > 0 THEN <<Offset(f.offset)>> ELSE <<>>)

\* mutant: the caller's carrier, here CA, is added as an access predicate
build_policy_query_Restricted(f) ==
  <<Table("POLICY_MONTHLY_SNAPSHOT_FACT"), Filter("CARRIER_NAME", "=", s_CA)>>
  \o InIfSet(f.carrier_name, "CARRIER_NAME")
  \o FieldSelection(f)
  \o Sorting(f)
  \o Pagination(f)

build_policy_query(f) ==
  <<Table("POLICY_MONTHLY_SNAPSHOT_FACT")>>
  \o EqIfNotNone(f.policy_id, "POLICY_ID")
  \o EqIfSet(f.policy_dim_id, "POLICY_DIM_ID")
  \o EqIfNotNone(f.insured_life_id, "INSURED_LIFE_ID")
  \o InIfSet(f.insured_state, "INSURED_STATE")
  \o EqIfSet(f.insured_city, "INSURED_CITY")
  \o EqIfSet(f.insured_zip, "INSURED_ZIP")
  \o InIfSet(f.policy_residence_state, "POLICY_RESIDENCE_STATE")
  \o InIfSet(f.carrier_name, "CARRIER_NAME")
  \o EqIfSet(f.environment, "ENVIRONMENT")
  \o GeIfSet(f.from_date, "ORIGINAL_EFFECTIVE_DT")
  \o LeIfSet(f.to_date, "ORIGINAL_EFFECTIVE_DT")
  \o GeIfNotNone(f.min_annualized_premium, "ANNUALIZED_PREMIUM")
  \o LeIfNotNone(f.max_annualized_premium, "ANNUALIZED_PREMIUM")
  \o EqIfSet(f.claim_status_cd, "CLAIM_STATUS_CD")
  \o FieldSelection(f)
  \o Sorting(f)
  \o Pagination(f)

build_claims_query(f) ==
  <<Table("CLAIMS_TPA_FEE_WORKSHEET_SNAPSHOT_FACT")>>
  \o EqIfNotNone(f.rfb_id, "RFB_ID")
  \o EqIfSet(f.policy_dim_id, "POLICY_DIM_ID")
  \o EqIfSet(f.policy_number, "POLICY_NUMBER")
  \o EqIfNotNone(f.episode_of_benefit_id, "EPISODE_OF_BENEFIT_ID")
  \o ContainsIfSet(f.claimant_name, "CLAIMANTNAME")
  \o EqIfSet(f.decision, "DECISION")
  \o InIfSet(f.life_state, "LIFE_STATE")
  \o InIfSet(f.issue_state, "ISSUE_STATE")
  \o InIfSet(f.policy_residence_state, "POLICY_RESIDENCE_STATE")
  \o InIfSet(f.carrier_name, "CARRIER_NAME")
  \o GeIfSet(f.from_snapshot_date, "SNAPSHOT_DATE")
  \o LeIfSet(f.to_snapshot_date, "SNAPSHOT_DATE")
  \o GeIfSet(f.from_certification_date, "CERTIFICATIONDATE")
  \o LeIfSet(f.to_certification_date, "CERTIFICATIONDATE")
  \o EqIfNotNone(f.claim_type_cd, "CLAIM_TYPE_CD")
  \o FieldSelection(f)
  \o Sorting(f)
  \o Pagination(f)

(***************************************************************************)
(* The state machine of one list request.                                  *)
(***************************************************************************)
NoValue == [t |-> "unset"]

Init ==
  /\ kind \in Kinds
  /\ Composed(kind, QueryDefaults(kind), MaxSet)
  /\ args = NoValue
  /\ filters = NoValue
  /\ query = <<>>
  /\ pc = "received"
  /\ status = 0
  /\ req = <<>> /\ rpc = <<>> /\ loop = 0 /\ session = "none"
  /\ calls = <<>> /\ work = <<>> /\ resp = <<>> /\ logs = <<>>
  /\ mgr = NoValue /\ sessions = <<>> /\ callers = <<>>

\* the parameters pass the Query(...) constraints: the handler is called
ParamsAccepted ==
  /\ pc = "received"
  /\ QueryParamsValid(kind, params)
  /\ args' = QueryParamsValues(kind, params)
  /\ pc' = "handler"
  /\ UNCHANGED <<kind, params, filters, query, status>>
  /\ UNCHANGED apiVars
  /\ UNCHANGED mgrVars

\* a parameter violates its constraint: validation_exception_handler answers 422
ParamsRejected ==
  /\ pc = "received"
  /\ ~QueryParamsValid(kind, params)
  /\ status' = HTTP_422
  /\ pc' = "done"
  /\ UNCHANGED <<kind, params, args, filters, query>>
  /\ UNCHANGED apiVars
  /\ UNCHANGED mgrVars

\* filters = PolicyFilters(...) / ClaimsFilters(...) inside the handler's try
FiltersBuilt ==
  /\ pc = "handler"
  /\ FiltersValid(kind, args)
  /\ filters' = FiltersOf(kind, args)
  /\ pc' = "service"
  /\ UNCHANGED <<kind, params, args, query, status>>
  /\ UNCHANGED apiVars
  /\ UNCHANGED mgrVars

\* the construction raises: except Exception -> HTTPException(500)
FiltersFailed ==
  /\ pc = "handler"
  /\ ~FiltersValid(kind, args)
  /\ status' = HTTP_500
  /\ pc' = "done"
  /\ UNCHANGED <<kind, params, args, filters, query>>
  /\ UNCHANGED apiVars
  /\ UNCHANGED mgrVars

\* PolicyService.get_policies: df = build_policy_query(self.session, filters)
CompilePolicy ==
  /\ pc = "service"
  /\ kind = "policy"
  /\ query' = build_policy_query(filters)
  /\ pc' = "compiled"
  /\ UNCHANGED <<kind, params, args, filters, status>>
  /\ UNCHANGED apiVars
  /\ UNCHANGED mgrVars

\* ClaimsService.get_claims: df = build_claims_query(self.session, filters)
CompileClaims ==
  /\ pc = "service"
  /\ kind = "claims"
  /\ query' = build_claims_query(filters)
  /\ pc' = "compiled"
  /\ UNCHANGED <<kind, params, args, filters, status>>
  /\ UNCHANGED apiVars
  /\ UNCHANGED mgrVars

Next ==
  \/ ParamsAccepted
  \/ ParamsRejected
  \/ FiltersBuilt
  \/ FiltersFailed
  \/ CompilePolicy
  \/ CompileClaims

Spec == Init /\ [][Next]_vars

(***************************************************************************)
(* Vocabulary of the properties.                                           *)
(***************************************************************************)
Build(k, f) == IF k = "policy" THEN build_policy_query(f) ELSE build_claims_query(f)

IsFilter(d) == d.d = "filter"
IsSelect(d) == d.d = "select"
IsSort(d) == d.d = "sort"
IsLimit(d) == d.d = "limit"
IsOffset(d) == d.d = "offset"

Predicates(q) == SelectSeq(q, IsFilter)
Projections(q) == SelectSeq(q, IsSelect)
Sorts(q) == SelectSeq(q, IsSort)
Limits(q) == SelectSeq(q, IsLimit)
Offsets(q) == SelectSeq(q, IsOffset)

\* the predicates of q on column c with operator op
PredicatesOn(q, c, op) ==
  LET Hit(d) == d.d = "filter" /\ d.col = c /\ d.op = op IN SelectSeq(q, Hit)
\* the predicates of q on column c
PredicatesOnColumn(q, c) ==
  LET Hit(d) == d.d = "filter" /\ d.col = c IN SelectSeq(q, Hit)

\* the fixed field order of the two builders: <<field, column, operator>>
PolicyFieldOrder ==
  << <<"policy_id", "POLICY_ID", "eq">>,
     <<"policy_dim_id", "POLICY_DIM_ID", "eq">>,
     <<"insured_life_id", "INSURED_LIFE_ID", "eq">>,
     <<"insured_state", "INSURED_STATE", "in">>,
     <<"insured_city", "INSURED_CITY", "eq">>,
     <<"insured_zip", "INSURED_ZIP", "eq">>,
     <<"policy_residence_state", "POLICY_RESIDENCE_STATE", "in">>,
     <<"carrier_name", "CARRIER_NAME", "in">>,
     <<"environment", "ENVIRONMENT", "eq">>,
     <<"from_date", "ORIGINAL_EFFECTIVE_DT", "ge">>,
     <<"to_date", "ORIGINAL_EFFECTIVE_DT", "le">>,
     <<"min_annualized_premium", "ANNUALIZED_PREMIUM", "ge">>,
     <<"max_annualized_premium", "ANNUALIZED_PREMIUM", "le">>,
     <<"claim_status_cd", "CLAIM_STATUS_CD", "eq">> >>

ClaimsFieldOrder ==
  << <<"rfb_id", "RFB_ID", "eq">>,
     <<"policy_dim_id", "POLICY_DIM_ID", "eq">>,
     <<"policy_number", "POLICY_NUMBER", "eq">>,
     <<"episode_of_benefit_id", "EPISODE_OF_BENEFIT_ID", "eq">>,
     <<"claimant_name", "CLAIMANTNAME", "contains">>,
     <<"decision", "DECISION", "eq">>,
     <<"life_state", "LIFE_STATE", "in">>,
     <<"issue_state", "ISSUE_STATE", "in">>,
     <<"policy_residence_state", "POLICY_RESIDENCE_STATE", "in">>,
     <<"carrier_name", "CARRIER_NAME", "in">>,
     <<"from_snapshot_date", "SNAPSHOT_DATE", "ge">>,
     <<"to_snapshot_date", "SNAPSHOT_DATE", "le">>,
     <<"from_certification_date", "CERTIFICATIONDATE", "ge">>,
     <<"to_certification_date", "CERTIFICATIONDATE", "le">>,
     <<"claim_type_cd", "CLAIM_TYPE_CD", "eq">> >>

FieldOrder(k) == IF k = "policy" THEN PolicyFieldOrder ELSE ClaimsFieldOrder

\* the column of a filter field
ColumnOf(k, name) ==
  LET i == CHOOSE j \in 1..Len(FieldOrder(k)) : FieldOrder(k)[j][1] = name
  IN FieldOrder(k)[i][2]

\* a field is present: non-null, and non-empty when it is a string
Present(x) == x.t # "none" /\ (x.t = "str" => Len(x.v) > 0)

Compiled == pc = "compiled"

(***************************************************************************)
(* C1: the predicates of a compiled query are exactly one per present      *)
(* filter field (0 and 0.0 count as present, "" as absent), none for an    *)
(* absent field, in the fixed field order of the builder.                  *)
(***************************************************************************)
C1_OnePredicatePerPresentField ==
  Compiled =>
    LET IsPresent(e) == Present(filters[e[1]])
        expected == SelectSeq(FieldOrder(kind), IsPresent)
        preds == Predicates(query)
    IN /\ Len(preds) = Len(expected)
       /\ \A i \in 1..Len(preds) :
            preds[i].col = expected[i][2] /\ preds[i].op = expected[i][3]

C1_Witness ==
  /\ Compiled
  /\ kind = "policy"
  /\ filters.policy_id = PyInt(0)
  /\ filters.insured_city = PyStr(s_empty)
  /\ Predicates(query) = <<Filter("POLICY_ID", "eq", PyInt(0))>>

(***************************************************************************)
(* C2: a request that sets nothing beyond the defaults compiles to the     *)
(* source table, no predicate, no projection, one ascending sort on the    *)
(* record type's default column (POLICY_ID / RFB_ID), limit 100 and no     *)
(* offset directive.                                                       *)
(***************************************************************************)
C2_DefaultsOnly ==
  /\ \A p \in FilterFields(kind) \cup {"fields"} : params[p] = None
  /\ params.limit = 100
  /\ params.offset = 0
  /\ params.sort_by = PyStr(IF kind = "policy" THEN s_POLICY_ID ELSE s_RFB_ID)
  /\ params.sort_order = PyStr(s_asc)

C2_DefaultQuery ==
  (Compiled /\ C2_DefaultsOnly) =>
    /\ Predicates(query) = <<>>
    /\ Projections(query) = <<>>
    /\ Sorts(query) = <<Sort(IF kind = "policy" THEN s_POLICY_ID ELSE s_RFB_ID, FALSE)>>
    /\ Limits(query) = <<Limit(100)>>
    /\ Offsets(query) = <<>>
    /\ Len(query) = 3

C2_Witness ==
  /\ Compiled
  /\ C2_DefaultsOnly
  /\ kind = "claims"
  /\ query = <<Table("CLAIMS_TPA_FEE_WORKSHEET_SNAPSHOT_FACT"), Sort(s_RFB_ID, FALSE),
               Limit(100)>>

(***************************************************************************)
(* C3: every multi-value field with a non-empty value compiles to exactly  *)
(* one set-membership predicate on its column whose value list is the      *)
(* comma-separated segments in the order given, duplicates kept; a single  *)
(* segment is still a set-membership predicate, never an equality.         *)
(***************************************************************************)
\* the positions of the commas of s, in increasing order
CommaPositions(s) ==
  LET IsComma(i) == s[i] = "," IN SelectSeq([i \in 1..Len(s) |-> i], IsComma)

\* the i-th comma-separated segment of s
NthSegment(s, i) ==
  LET cs == CommaPositions(s)
      from == IF i = 1 THEN 1 ELSE cs[i - 1] + 1
      to == IF i = Len(cs) + 1 THEN Len(s) ELSE cs[i] - 1
  IN SubSeq(s, from, to)

C3_MultiValueIsSetMembership ==
  Compiled =>
    \A m \in MultiFields(kind) :
      Present(filters[m]) =>
        LET ps == PredicatesOnColumn(query, ColumnOf(kind, m))
            n == Len(CommaPositions(filters[m].v)) + 1
        IN /\ Len(ps) = 1
           /\ ps[1].op = "in"
           /\ Len(ps[1].val) = n
           /\ \A i \in 1..n : ps[1].val[i] = NthSegment(filters[m].v, i)

C3_Witness ==
  /\ Compiled
  /\ kind = "policy"
  /\ filters.insured_state = PyStr(s_CA)
  /\ filters.carrier_name = PyStr(s_CA_CA)
  /\ Predicates(query) = <<Filter("INSURED_STATE", "in", <<s_CA>>),
                           Filter("CARRIER_NAME", "in", <<s_CA, s_CA>>)>>

(***************************************************************************)
(* C4, as stated: each comma-separated segment of a multi-value filter is  *)
(* trimmed of surrounding whitespace before it is placed in the value      *)
(* list ('CA, NY' compiles to [CA, NY]).                                   *)
(***************************************************************************)
Blank == {" ", "\t", "\n", "\r"}
IsTrimmed(s) == Len(s) = 0 \/ (s[1] \notin Blank /\ s[Len(s)] \notin Blank)

C4_SegmentsTrimmed ==
  Compiled =>
    \A m \in MultiFields(kind) :
      Present(filters[m]) =>
        \A i \in 1..Len(Predicates(query)) :
          LET d == Predicates(query)[i]
          IN d.col = ColumnOf(kind, m) =>
               \A j \in 1..Len(d.val) : IsTrimmed(d.val[j])

(***************************************************************************)
(* C4, amended: each comma-separated segment of a multi-value filter is    *)
(* placed in the value list exactly as given, surrounding whitespace       *)
(* included: joining the value list with commas gives back the filter      *)
(* string ('CA, NY' compiles to [CA, ' NY']).                              *)
(***************************************************************************)
RECURSIVE Join(_)
Join(segs) ==
  IF Len(segs) = 0 THEN <<>>
  ELSE IF Len(segs) = 1 THEN segs[1]
  ELSE segs[1] \o <<",">> \o Join(Tail(segs))

C4_SegmentsVerbatim ==
  Compiled =>
    \A m \in MultiFields(kind) :
      Present(filters[m]) =>
        \A i \in 1..Len(Predicates(query)) :
          LET d == Predicates(query)[i]
          IN d.col = ColumnOf(kind, m) =>
               /\ Join(d.val) = filters[m].v
               /\ \A j \in 1..Len(d.val) : \A c \in 1..Len(d.val[j]) : d.val[j][c] # ","

C4_Witness ==
  /\ Compiled
  /\ kind = "claims"
  /\ filters.life_state = PyStr(s_CA_sp_NY)
  /\ Predicates(query) = <<Filter("LIFE_STATE", "in", <<s_CA, s_sp_NY>>)>>

(***************************************************************************)
(* C5: the claimant_name filter, when present, is a substring-contains     *)
(* predicate on CLAIMANTNAME; every other single-valued string filter of   *)
(* either record type is an exact-equality predicate; no compiled query    *)
(* has a substring predicate on any other column.                          *)
(***************************************************************************)
C5_ContainsOnlyForClaimantName ==
  Compiled =>
    /\ \A i \in 1..Len(query) :
         (query[i].d = "filter" /\ query[i].op = "contains") =>
           (kind = "claims" /\ query[i].col = "CLAIMANTNAME")
    /\ \A f \in StrFields(kind) :
         Present(filters[f]) =>
           PredicatesOnColumn(query, ColumnOf(kind, f)) =
             <<Filter(ColumnOf(kind, f),
                      IF kind = "claims" /\ f = "claimant_name" THEN "contains" ELSE "eq",
                      filters[f])>>

C5_Witness ==
  /\ Compiled
  /\ kind = "claims"
  /\ Predicates(query) = <<Filter("CLAIMANTNAME", "contains", PyStr(s_Smith)),
                           Filter("DECISION", "eq", PyStr(s_Smith))>>

(***************************************************************************)
(* C6: for every range filter a present lower bound compiles to one        *)
(* predicate "column >= value" and a present upper bound to one predicate  *)
(* "column <= value" on the same column; the two are independent, the      *)
(* column carries no other predicate, and no check that lower <= upper is  *)
(* made.                                                                   *)
(***************************************************************************)
\* <<lower field, upper field, column>>
Ranges(k) ==
  IF k = "policy"
  THEN {<<"from_date", "to_date", "ORIGINAL_EFFECTIVE_DT">>,
        <<"min_annualized_premium", "max_annualized_premium", "ANNUALIZED_PREMIUM">>}
  ELSE {<<"from_snapshot_date", "to_snapshot_date", "SNAPSHOT_DATE">>,
        <<"from_certification_date", "to_certification_date", "CERTIFICATIONDATE">>}

C6_RangeBoundsIndependent ==
  Compiled =>
    \A r \in Ranges(kind) :
      LET lo == filters[r[1]]
          hi == filters[r[2]]
      IN /\ PredicatesOn(query, r[3], "ge") =
              (IF lo.t # "none" THEN <<Filter(r[3], "ge", lo)>> ELSE <<>>)
         /\ PredicatesOn(query, r[3], "le") =
              (IF hi.t # "none" THEN <<Filter(r[3], "le", hi)>> ELSE <<>>)
         /\ Len(PredicatesOnColumn(query, r[3])) =
              (IF lo.t # "none" THEN 1 ELSE 0) + (IF hi.t # "none" THEN 1 ELSE 0)

\* both bounds present, the lower one above the upper one
C6_Witness ==
  /\ Compiled
  /\ kind = "policy"
  /\ filters.from_date = PyDate(2024, 3, 15)
  /\ filters.to_date = PyDate(2024, 1, 1)
  /\ ~DateLe(filters.from_date, filters.to_date)
  /\ Predicates(query) = <<Filter("ORIGINAL_EFFECTIVE_DT", "ge", PyDate(2024, 3, 15)),
                           Filter("ORIGINAL_EFFECTIVE_DT", "le", PyDate(2024, 1, 1))>>

(***************************************************************************)
(* C7: when fields is present the compiled query has exactly one           *)
(* projection whose column list is the comma-separated segments of fields, *)
(* each trimmed and upper-cased, in the given order; it comes after every  *)
(* predicate, and the predicates are those of the same specification       *)
(* without fields.                                                         *)
(***************************************************************************)
C7_ProjectionAfterPredicates ==
  (Compiled /\ Present(filters.fields)) =>
    LET n == Len(CommaPositions(filters.fields.v)) + 1
        sel == Projections(query)
    IN /\ Len(sel) = 1
       /\ Len(sel[1].cols) = n
       /\ \A i \in 1..n : sel[1].cols[i] = Upper(Strip(NthSegment(filters.fields.v, i)))
       /\ \A i, j \in 1..Len(query) :
            (query[i].d = "filter" /\ query[j].d = "select") => i < j
       /\ Predicates(query) = Predicates(Build(kind, [filters EXCEPT !.fields = None]))

C7_Witness ==
  /\ Compiled
  /\ kind = "policy"
  /\ filters.fields = PyStr(s_fields2)
  /\ filters.carrier_name = PyStr(s_CA)
  /\ SubSeq(query, 2, 3) = <<Filter("CARRIER_NAME", "in", <<s_CA>>),
                             Select(<<s_POLICY_ID, s_CARRIER_NAME>>)>>

(***************************************************************************)
(* C8, as stated: every compiled query contains exactly one sort           *)
(* directive: the upper-cased sort_by, descending iff sort_order is        *)
(* "desc", or the record type's default column when no sort column is      *)
(* given (sort_by empty or null).                                          *)
(***************************************************************************)
C8_AlwaysOneSort ==
  Compiled =>
    Sorts(query) =
      <<Sort(IF Present(filters.sort_by)
             THEN Upper(filters.sort_by.v)
             ELSE (IF kind = "policy" THEN s_POLICY_ID ELSE s_RFB_ID),
             filters.sort_order.v = s_desc)>>

(***************************************************************************)
(* C9: every compiled query contains exactly one limit directive, equal    *)
(* to the specification's limit; no offset directive when offset = 0 and   *)
(* exactly one, equal to the specification's offset, when offset >= 1.     *)
(***************************************************************************)
C9_LimitAlwaysOffsetWhenPositive ==
  Compiled =>
    /\ Limits(query) = <<Limit(filters.limit)>>
    /\ filters.offset = 0 => Offsets(query) = <<>>
    /\ filters.offset >= 1 => Offsets(query) = <<Offset(filters.offset)>>

C9_Witness ==
  /\ Compiled
  /\ filters.limit = 50
  /\ filters.offset = 25
  /\ Limits(query) = <<Limit(50)>>
  /\ Offsets(query) = <<Offset(25)>>

(***************************************************************************)
(* C10: a limit outside 1..1000 or a negative offset is rejected by        *)
(* validation (422, nothing built or compiled) and never clamped; every    *)
(* specification that reaches the builders has 1 <= limit <= 1000 and      *)
(* offset >= 0, the values the request gave.                               *)
(***************************************************************************)
C10_OutOfRange == params.limit < 1 \/ params.limit > 1000 \/ params.offset < 0

C10_RejectedNotClamped ==
  /\ C10_OutOfRange =>
       /\ pc \in {"received", "done"}
       /\ pc = "done" => status = 422
       /\ args = NoValue /\ filters = NoValue /\ query = <<>>
  /\ pc \in {"service", "compiled"} =>
       /\ filters.limit >= 1 /\ filters.limit <= 1000 /\ filters.offset >= 0
       /\ filters.limit = params.limit /\ filters.offset = params.offset

C10_Witness ==
  /\ pc = "done"
  /\ status = 422
  /\ params.limit = 1001
  /\ params.offset = -1
  /\ filters = NoValue

(***************************************************************************)
(* C11, as stated: on the list endpoints every malformed or out-of-range   *)
(* filter input (a date string that is not a valid YYYY-MM-DD date, limit  *)
(* outside 1..1000, negative offset, sort_order other than asc / desc) is  *)
(* answered with the validation error (422), never with a server error,    *)
(* and no query is compiled for that request.                              *)
(***************************************************************************)
C11_Malformed ==
  \/ params.limit < 1 \/ params.limit > 1000
  \/ params.offset < 0
  \/ params.sort_order.v \notin {s_asc, s_desc}
  \/ \E p \in DateFields(kind) : params[p].t = "str" /\ ~IsIsoDate(params[p].v)

C11_MalformedIsClientError ==
  C11_Malformed =>
    /\ pc \in {"received", "handler", "done"}
    /\ pc = "done" => status = 422
    /\ query = <<>>

(***************************************************************************)
(* The API: its requests, the values the warehouse returns and the         *)
(* responses.                                                              *)
(***************************************************************************)
\* how many rows the executor returns to one list or fetch-by-id call
MaxRows == 2
\* how many distinct non-null keys a grouped column has
MaxGroups == 21
\* how many requests the event loop serves at a time
MaxReq == 2

HTTP_200 == 200
HTTP_401 == 401
HTTP_403 == 403
HTTP_404 == 404
\* LIMIT 20 of the by-state breakdowns
StateLimit == 20

Min(a, b) == IF a <= b THEN a ELSE b

PyBool(b) == [t |-> "bool", v |-> b]
PyDateTime(y, m, d, hh, mm, ss) == [t |-> "datetime", v |-> <<y, m, d, hh, mm, ss>>]

\* str(n) of one decimal digit
DigitChar(n) == <<"0", "1", "2", "3", "4", "5", "6", "7", "8", "9">>[n + 1]
Fmt2(n) == <<DigitChar(n \div 10), DigitChar(n % 10)>>
Fmt4(n) ==
  <<DigitChar(n \div 1000), DigitChar((n \div 100) % 10),
    DigitChar((n \div 10) % 10), DigitChar(n % 10)>>

\* date.isoformat(): YYYY-MM-DD
date_isoformat(v) == Fmt4(v[1]) \o <<"-">> \o Fmt2(v[2]) \o <<"-">> \o Fmt2(v[3])

\* datetime.isoformat() of a naive value with no microseconds: YYYY-MM-DDTHH:MM:SS
datetime_isoformat(v) ==
  date_isoformat(v) \o <<"T">> \o Fmt2(v[4]) \o <<":">> \o Fmt2(v[5])
                    \o <<":">> \o Fmt2(v[6])

isoformat(x) == IF x.t = "datetime" THEN datetime_isoformat(x.v) ELSE date_isoformat(x.v)

\* mutant: only datetime values are converted, a date is passed through
serialize_value_DateTimeOnly(x) ==
  IF x.t = "datetime" THEN PyStr(isoformat(x)) ELSE x

\* PolicyService._serialize_value
PolicyService_serialize_value(x) ==
  IF x.t \in {"datetime", "date"} THEN PyStr(isoformat(x)) ELSE x

\* ClaimsService._serialize_value
ClaimsService_serialize_value(x) ==
  IF x.t \in {"datetime", "date"} THEN PyStr(isoformat(x)) ELSE x

\* a row is the ordered mapping Row.as_dict(): a sequence of <<key, value>>
\* PolicyService._serialize_row
PolicyService_serialize_row(row) ==
  [i \in 1..Len(row) |-> <<row[i][1], PolicyService_serialize_value(row[i][2])>>]

\* ClaimsService._serialize_row
ClaimsService_serialize_row(row) ==
  [i \in 1..Len(row) |-> <<row[i][1], ClaimsService_serialize_value(row[i][2])>>]

serialize_row(k, row) ==
  IF k = "policy" THEN PolicyService_serialize_row(row)
  ELSE ClaimsService_serialize_row(row)

\* rows the warehouse can return: every scalar type, any column names
s_2024_03_15T09_05_00 ==
  <<"2", "0", "2", "4", "-", "0", "3", "-", "1", "5", "T",
    "0", "9", ":", "0", "5", ":", "0", "0">>
s_1999_12_31 == <<"1", "9", "9", "9", "-", "1", "2", "-", "3", "1">>

RowFull ==
  << <<"POLICY_ID", PyInt(7)>>,
     <<"CARRIER_NAME", PyStr(s_Smith)>>,
     <<"ANNUALIZED_PREMIUM", PyFloat(1)>>,
     <<"ORIGINAL_EFFECTIVE_DT", PyDateTime(2024, 3, 15, 9, 5, 0)>>,
     <<"POLICY_SNAPSHOT_DATE", PyDate(2024, 3, 15)>>,
     <<"INSURED_ZIP", None>> >>

RowOther ==
  << <<"SNAPSHOT_DATE", PyDate(1999, 12, 31)>>,
     <<"IS_OPEN", PyBool(TRUE)>>,
     <<"RFB_ID", PyInt(0)>>,
     <<"DECISION", PyStr(d_2024_01_01)>> >>

RowProjected == << <<"X", PyStr(s_empty)>> >>

SampleRows == {RowFull, RowOther, RowProjected}

RowSeqs(n) == UNION {[1..i -> SampleRows] : i \in 0..n}

(***************************************************************************)
(* Bearer credentials and get_current_user.                                *)
(***************************************************************************)
s_u1 == <<"u", "1">>
s_alice == <<"a", "l", "i", "c", "e">>
s_bob == <<"b", "o", "b">>
s_ADMIN == <<"A", "D", "M", "I", "N">>
s_VIEWER == <<"V", "I", "E", "W", "E", "R">>
s_ALL == <<"A", "L", "L">>
s_secret == <<"s", "e", "c", "r", "e", "t">>
s_wrong == <<"w", "r", "o", "n", "g">>

\* no Authorization header
NoCredential == [t |-> "missing"]
\* a bearer token: is its signature the server's, has it expired, its payload
Token(sig, expired, payload) ==
  [t |-> "token", sig |-> sig, expired |-> expired, payload |-> payload]
Payload(uid, name, role, carrier) ==
  [user_id |-> uid, username |-> name, role |-> role, carrier_access |-> carrier]

GoodPayload == Payload(PyStr(s_u1), PyStr(s_alice), PyStr(s_ADMIN), PyStr(s_CA))

Credentials ==
  { NoCredential,
    Token("forged", FALSE, GoodPayload),
    Token("server", TRUE, GoodPayload),
    Token("server", FALSE, Payload(None, PyStr(s_alice), PyStr(s_ADMIN), None)),
    Token("server", FALSE, Payload(PyStr(s_u1), None, PyStr(s_ADMIN), None)),
    Token("server", FALSE, Payload(PyStr(s_u1), PyStr(s_empty), None, None)),
    Token("server", FALSE, GoodPayload),
    Token("server", FALSE, Payload(PyStr(s_u1), PyStr(s_alice), None, None)) }

\* security = HTTPBearer(): a request without bearer credentials is refused by
\* the scheme itself; the status is the installed FastAPI's (401 or 403)
HTTPBearerStatus == {HTTP_401, HTTP_403}

\* decode_access_token: jwt.decode raises JWTError on a bad signature or an
\* expired token, answered 401
decode_access_token(tok) ==
  IF tok.sig = "server" /\ ~tok.expired THEN Accepted(tok.payload) ELSE Rejected(HTTP_401)

\* mutant: only user_id is required of the payload
get_current_user_UserIdOnly(tok) ==
  LET d == decode_access_token(tok) IN
  IF ~d.ok THEN d
  ELSE IF ~Truthy(d.v.user_id) THEN Rejected(HTTP_401)
  ELSE Accepted([user_id |-> d.v.user_id, username |-> d.v.username,
                 role |-> IF Truthy(d.v.role) THEN d.v.role ELSE PyStr(s_VIEWER),
                 carrier |-> IF Truthy(d.v.carrier_access) THEN d.v.carrier_access
                             ELSE PyStr(s_ALL)])

\* get_current_user: if not user_id or not username: 401; role or "VIEWER";
\* carrier_access or "ALL"
get_current_user(tok) ==
  LET d == decode_access_token(tok) IN
  IF ~d.ok THEN d
  ELSE IF ~Truthy(d.v.user_id) \/ ~Truthy(d.v.username) THEN Rejected(HTTP_401)
  ELSE Accepted([user_id |-> d.v.user_id, username |-> d.v.username,
                 role |-> IF Truthy(d.v.role) THEN d.v.role ELSE PyStr(s_VIEWER),
                 carrier |-> IF Truthy(d.v.carrier_access) THEN d.v.carrier_access
                             ELSE PyStr(s_ALL)])

(***************************************************************************)
(* The queries handed to the executor, and what the warehouse answers.     *)
(***************************************************************************)
PolicyTable == "POLICY_MONTHLY_SNAPSHOT_FACT"
ClaimsTable == "CLAIMS_TPA_FEE_WORKSHEET_SNAPSHOT_FACT"
TableOf(k) == IF k = "policy" THEN PolicyTable ELSE ClaimsTable

\* df.collect() of a compiled list query
DataFrameQuery(plan) == [op |-> "dataframe", plan |-> plan]
\* SELECT * FROM <table> WHERE <col> = {id} LIMIT 1
ByIdQuery(k, id) ==
  [op |-> "by_id", table |-> TableOf(k),
   col |-> IF k = "policy" THEN "POLICY_ID" ELSE "RFB_ID", id |-> id]
\* SELECT COUNT(*), ... FROM <table>
TotalsQuery(k) == [op |-> "totals", table |-> TableOf(k)]
\* SELECT <col>, COUNT(*) FROM <table> [WHERE <col> IS NOT NULL]
\* GROUP BY <col> ORDER BY COUNT DESC [LIMIT n]
GroupQuery(k, c, notnull, lim) ==
  [op |-> "group", table |-> TableOf(k), col |-> c, notnull |-> notnull, limit |-> lim]
\* SELECT ... FROM API_USERS WHERE USERNAME = '{username}' AND IS_ACTIVE = TRUE LIMIT 1
\* (the f-string puts the username between the quotes of the text; session.sql
\* is given the text alone, no bound values; of the text the model keeps the
\* condition, from WHERE to TRUE)
s_where_username == <<"W","H","E","R","E"," ","U","S","E","R","N","A","M","E"," ","="," ","'">>
s_and_active == <<"'"," ","A","N","D"," ","I","S","_","A","C","T","I","V","E"," ","="," ","T","R","U","E">>

UserLookup(username) ==
  [op |-> "user_lookup", username |-> username,
   text |-> s_where_username \o username \o s_and_active, binds |-> <<>>]
\* UPDATE API_USERS SET LAST_LOGIN = ... WHERE USER_ID = '{user_id}'
TouchLogin(uid) == [op |-> "touch_login", user_id |-> uid]

\* the queries of PolicyService.get_policy_summary, in source order
PolicySummaryQueries ==
  << TotalsQuery("policy"),
     GroupQuery("policy", "INSURED_STATE", FALSE, PyInt(StateLimit)),
     GroupQuery("policy", "CARRIER_NAME", FALSE, None) >>

\* the queries of ClaimsService.get_claims_analytics, in source order
ClaimsAnalyticsQueries ==
  << TotalsQuery("claims"),
     GroupQuery("claims", "DECISION", TRUE, None),
     GroupQuery("claims", "LIFE_STATE", TRUE, PyInt(StateLimit)),
     GroupQuery("claims", "CARRIER_NAME", TRUE, None) >>

AnalyticsQueries(k) == IF k = "policy" THEN PolicySummaryQueries ELSE ClaimsAnalyticsQueries

\* The data of an analytics request: every grouped column has d.groups
\* distinct non-null keys, key i on d.groups + 1 - i rows, and, when d.null,
\* d.groups + 1 rows whose key is NULL.
GroupKey(i) == PyStr(<<"K">> \o Fmt2(i))

AllGroups(d) ==
  (IF d.null THEN << <<None, d.groups + 1>> >> ELSE <<>>)
  \o [i \in 1..d.groups |-> <<GroupKey(i), d.groups + 1 - i>>]

\* the warehouse's answer to a breakdown query: rows <<key, COUNT>>
GroupRows(q, d) ==
  LET kept == IF q.notnull /\ d.null THEN Tail(AllGroups(d)) ELSE AllGroups(d)
  IN IF q.limit.t = "none" THEN kept ELSE SubSeq(kept, 1, Min(Len(kept), q.limit.v))

\* the warehouse's answer to the totals query: one row, COUNT(*)
TotalsRows(d) ==
  << [TOTAL |-> (d.groups * (d.groups + 1)) \div 2 + (IF d.null THEN d.groups + 1 ELSE 0)] >>

\* API_USERS
UserAlice ==
  [USER_ID |-> PyStr(s_u1), USERNAME |-> PyStr(s_alice), PASSWORD_HASH |-> s_secret,
   SNOWFLAKE_ROLE |-> PyStr(s_ADMIN), CARRIER_ACCESS |-> None, IS_ACTIVE |-> TRUE]
UserBob ==
  [USER_ID |-> PyStr(<<"u", "2">>), USERNAME |-> PyStr(s_bob), PASSWORD_HASH |-> s_secret,
   SNOWFLAKE_ROLE |-> PyStr(s_VIEWER), CARRIER_ACCESS |-> PyStr(s_CA), IS_ACTIVE |-> FALSE]
ApiUsers == <<UserAlice, UserBob>>

\* the warehouse's answer to the user lookup
UserRows(q) ==
  SelectSeq(ApiUsers, LAMBDA u : u.USERNAME.v = q.username /\ u.IS_ACTIVE)

\* pwd_context.verify(plain, hashed): the hash stands for the password hashed
verify_password(plain, hashed) == plain = hashed

\* str(e) of the exception the executor raises
ExcText == "SQL compilation error: invalid identifier"
\* str(e) of a pydantic ValidationError
ValidationText == "1 validation error"
\* str(e) of the exception Session.builder.create() raises
ConnectText == "could not connect to Snowflake backend"

(***************************************************************************)
(* The requests.                                                           *)
(***************************************************************************)
DataEndpoints == {"list", "by_id", "analytics"}

\* query strings of a list request
ListInputs(k) ==
  LET dflt == QueryDefaults(k)
      dateField == IF k = "policy" THEN "from_date" ELSE "from_snapshot_date"
  IN { dflt,
       [dflt EXCEPT !["limit"] = MaxLimit + 1],
       [dflt EXCEPT ![dateField] = PyStr(d_2024_02_30)],
       [dflt EXCEPT !["carrier_name"] = PyStr(s_CA_NY),
                    !["limit"] = MinLimit, !["offset"] = 25] }

\* list: the query parameters; by_id: the path parameter; analytics: none,
\* the input is the data of the warehouse when the request is served
Inputs(ep, k) ==
  CASE ep = "list" -> ListInputs(k)
    [] ep = "by_id" -> {PyInt(n) : n \in 0..MaxId}
    [] ep = "analytics" -> {[groups |-> g, null |-> b] : g \in 0..MaxGroups, b \in BOOLEAN}

\* LoginRequest
LoginInputs ==
  {[username |-> u, password |-> w] : u \in {s_alice, s_bob}, w \in {s_secret, s_wrong}}

Request(ep, k, cred, input) == [ep |-> ep, kind |-> k, cred |-> cred, input |-> input]

NoResponse == [status |-> 0, body |-> NoValue]
Detail(parts) == [detail |-> parts]

\* f"Error fetching ...: " of the handlers' HTTPException(500, detail=...)
ErrorPrefix(ep, k) ==
  CASE ep = "list" /\ k = "policy" -> "Error fetching policies: "
    [] ep = "list" /\ k = "claims" -> "Error fetching claims: "
    [] ep = "by_id" /\ k = "policy" -> "Error fetching policy: "
    [] ep = "by_id" /\ k = "claims" -> "Error fetching claim: "
    [] ep = "analytics" /\ k = "policy" -> "Error fetching summary: "
    [] ep = "analytics" /\ k = "claims" -> "Error fetching analytics: "

\* mutant: a failed list or fetch-by-id query is run once more
ServiceOnError_RetryOnce(ep, i) ==
  CASE ep = "login" /\ i = 1 -> "return_none"
    [] ep = "login" /\ i = 2 -> "continue"
    [] ep \in {"list", "by_id"} /\ i = 1 -> "retry"
    [] OTHER -> "raise"

\* mutant: a failed breakdown query leaves its breakdown empty
ServiceOnError_DefaultBreakdown(ep, i) ==
  CASE ep = "login" /\ i = 1 -> "return_none"
    [] ep = "login" /\ i = 2 -> "continue"
    [] ep = "analytics" /\ i > 1 -> "continue"
    [] OTHER -> "raise"

\* what a service method does when the executor call number i raises: the
\* data services log and re-raise; authenticate_user returns None when the
\* lookup raises and carries on when the LAST_LOGIN update raises
ServiceOnError(ep, i) ==
  CASE ep = "login" /\ i = 1 -> "return_none"
    [] ep = "login" /\ i = 2 -> "continue"
    [] OTHER -> "raise"

\* mutant: more than one row for the id is an ambiguity error
ById_Ambiguous(k, id, rows) ==
  IF Len(rows) = 1 THEN Accepted(serialize_row(k, rows[1])) ELSE Rejected(id)

\* get_policy_by_id / get_claim_by_id after collect(): if not result: raise
\* ValueError; return self._serialize_row(result[0].as_dict())
ById(k, id, rows) ==
  IF rows = <<>> THEN Rejected(id) ELSE Accepted(serialize_row(k, rows[1]))

\* str(e) of the ValueError
NotFoundText(k, id) ==
  IF k = "policy" THEN <<"Policy with ID ", id, " not found">>
  ELSE <<"Claim with RFB_ID ", id, " not found">>

\* the dict get_policy_summary / get_claims_analytics returns: the total and
\* the breakdowns {row[col]: row["COUNT"] for row in results}, in source order
Analytics(k, results) ==
  [total |-> results[1][1].TOTAL,
   breakdowns |-> [i \in 1..(Len(results) - 1) |->
                     [name |-> AnalyticsQueries(k)[i + 1].col, groups |-> results[i + 1]]]]

\* PolicySummaryResponse(**summary) / ClaimAnalyticsResponse(**analytics): the
\* breakdowns are Dict[str, int], a key that is not a string fails validation
ResponseModelValid(a) ==
  \A i \in 1..Len(a.breakdowns) :
    \A j \in 1..Len(a.breakdowns[i].groups) : a.breakdowns[i].groups[j][1].t = "str"

\* AuthService.create_user_token: token and TokenResponse fields
TokenResponse(u) ==
  [access_token |-> Token("server", FALSE,
                          Payload(u.USER_ID, u.USERNAME, u.SNOWFLAKE_ROLE,
                                  IF Truthy(u.CARRIER_ACCESS) THEN u.CARRIER_ACCESS
                                  ELSE PyStr(s_ALL))),
   token_type |-> "bearer", user_id |-> u.USER_ID, username |-> u.USERNAME,
   role |-> u.SNOWFLAKE_ROLE]

(***************************************************************************)
(* The state machine of the requests.  A data request runs on the event    *)
(* loop from its first dependency to its response: the dependencies and    *)
(* the handler are coroutines that never suspend, and the service methods  *)
(* they call are synchronous, so the task keeps the loop (loop = r) while  *)
(* it is blocked in collect().                                             *)
(***************************************************************************)
ListIdle ==
  /\ kind = "policy" /\ params = NoValue /\ args = NoValue /\ filters = NoValue
  /\ query = <<>> /\ pc = "idle" /\ status = 0
  /\ mgr = NoValue /\ sessions = <<>> /\ callers = <<>>

Call(q) == [sql |-> q, out |-> "pending", result |-> <<>>]
Settled(cs, out, result) ==
  [cs EXCEPT ![Len(cs)] = [sql |-> @.sql, out |-> out, result |-> result]]
Pending(r) ==
  /\ rpc[r] = "executing"
  /\ loop = r
  /\ calls[r][Len(calls[r])].out = "pending"
ResultsOf(cs) == [i \in 1..Len(cs) |-> cs[i].result]

Respond(r, st, body) ==
  /\ resp' = [resp EXCEPT ![r] = [status |-> st, body |-> body]]
  /\ rpc' = [rpc EXCEPT ![r] = "done"]
  /\ loop' = IF loop = r THEN 0 ELSE loop

\* Depends(security): no bearer credentials in the request
BearerRefused(r) ==
  /\ rpc[r] = "new" /\ loop = 0
  /\ req[r].ep \in DataEndpoints
  /\ req[r].cred.t = "missing"
  /\ \E st \in HTTPBearerStatus : Respond(r, st, Detail(<<"Not authenticated">>))
  /\ UNCHANGED <<req, session, calls, work, logs>>
  /\ UNCHANGED listVars
  /\ UNCHANGED mgrVars

\* get_current_user raises HTTPException(401)
CredentialRejected(r) ==
  /\ rpc[r] = "new" /\ loop = 0
  /\ req[r].ep \in DataEndpoints
  /\ req[r].cred.t = "token"
  /\ ~get_current_user(req[r].cred).ok
  /\ Respond(r, get_current_user(req[r].cred).v,
             Detail(<<IF decode_access_token(req[r].cred).ok
                      THEN "Invalid authentication credentials"
                      ELSE "Could not validate credentials">>))
  /\ UNCHANGED <<req, session, calls, work, logs>>
  /\ UNCHANGED listVars
  /\ UNCHANGED mgrVars

\* get_current_user returns the user context
CredentialAccepted(r) ==
  /\ rpc[r] = "new" /\ loop = 0
  /\ req[r].ep \in DataEndpoints
  /\ req[r].cred.t = "token"
  /\ get_current_user(req[r].cred).ok
  /\ rpc' = [rpc EXCEPT ![r] = "authed"]
  /\ loop' = r
  /\ UNCHANGED <<req, session, calls, work, resp, logs>>
  /\ UNCHANGED listVars
  /\ UNCHANGED mgrVars

\* get_policy_session / get_claims_session: await session_manager.get_session(),
\* which creates the session when there is none
SessionObtained(r) ==
  /\ rpc[r] = "authed" /\ loop = r
  /\ session' = "open"
  /\ work' = [work EXCEPT ![r] = @ \cup {"session"}
                                   \cup (IF session = "none" THEN {"session_created"} ELSE {})]
  /\ rpc' = [rpc EXCEPT ![r] = "ready"]
  /\ UNCHANGED <<req, loop, calls, resp, logs>>
  /\ UNCHANGED listVars
  /\ UNCHANGED mgrVars

\* _create_session raises: the exception leaves the dependency and
\* general_exception_handler answers 500
SessionFailed(r) ==
  /\ rpc[r] = "authed" /\ loop = r
  /\ session = "none"
  /\ logs' = [logs EXCEPT ![r] = @ \o << <<"Failed to create Snowpark session: ", ConnectText>>,
                                         <<"Unhandled exception: ", ConnectText>> >>]
  /\ Respond(r, HTTP_500, Detail(<<"Internal server error">>))
  /\ UNCHANGED <<req, session, calls, work>>
  /\ UNCHANGED listVars
  /\ UNCHANGED mgrVars

\* a list request whose parameters violate their Query(...) constraints
ListRejected(r) ==
  /\ rpc[r] = "ready" /\ loop = r
  /\ req[r].ep = "list"
  /\ ~QueryParamsValid(req[r].kind, req[r].input)
  /\ Respond(r, HTTP_422, Detail(<<"Validation error">>))
  /\ UNCHANGED <<req, session, calls, work, logs>>
  /\ UNCHANGED listVars
  /\ UNCHANGED mgrVars

\* get_policies / get_claims: PolicyFilters(...) raises inside the try
ListFiltersFailed(r) ==
  LET k == req[r].kind IN
  /\ rpc[r] = "ready" /\ loop = r
  /\ req[r].ep = "list"
  /\ QueryParamsValid(k, req[r].input)
  /\ ~FiltersValid(k, QueryParamsValues(k, req[r].input))
  /\ logs' = [logs EXCEPT ![r] = @ \o << <<ErrorPrefix("list", k), ValidationText>> >>]
  /\ Respond(r, HTTP_500, Detail(<<ErrorPrefix("list", k), ValidationText>>))
  /\ UNCHANGED <<req, session, calls, work>>
  /\ UNCHANGED listVars
  /\ UNCHANGED mgrVars

\* get_policies / get_claims up to results = df.collect()
ListCalled(r) ==
  LET k == req[r].kind
      a == QueryParamsValues(k, req[r].input) IN
  /\ rpc[r] = "ready" /\ loop = r
  /\ req[r].ep = "list"
  /\ QueryParamsValid(k, req[r].input)
  /\ FiltersValid(k, a)
  /\ work' = [work EXCEPT ![r] = @ \cup {"filters", "compile"}]
  /\ calls' = [calls EXCEPT ![r] = Append(@, Call(DataFrameQuery(Build(k, FiltersOf(k, a)))))]
  /\ rpc' = [rpc EXCEPT ![r] = "executing"]
  /\ UNCHANGED <<req, loop, session, resp, logs>>
  /\ UNCHANGED listVars
  /\ UNCHANGED mgrVars

\* collect() returns: the rows are serialized and returned
ListReturned(r) ==
  /\ Pending(r)
  /\ req[r].ep = "list"
  /\ \E rows \in RowSeqs(Min(MaxRows, req[r].input.limit)) :
       /\ calls' = [calls EXCEPT ![r] = Settled(@, "ok", rows)]
       /\ Respond(r, HTTP_200, [i \in 1..Len(rows) |-> serialize_row(req[r].kind, rows[i])])
  /\ UNCHANGED <<req, session, work, logs>>
  /\ UNCHANGED listVars
  /\ UNCHANGED mgrVars

\* get_policy_by_id / get_claim_by_id up to .collect()
ByIdCalled(r) ==
  /\ rpc[r] = "ready" /\ loop = r
  /\ req[r].ep = "by_id"
  /\ calls' = [calls EXCEPT ![r] = Append(@, Call(ByIdQuery(req[r].kind, req[r].input.v)))]
  /\ rpc' = [rpc EXCEPT ![r] = "executing"]
  /\ UNCHANGED <<req, loop, session, work, resp, logs>>
  /\ UNCHANGED listVars
  /\ UNCHANGED mgrVars

\* collect() returns: ValueError -> 404 when there is no row, else the first
\* row serialized.  The handler takes result[0] whatever the length.
ByIdReturned(r) ==
  LET k == req[r].kind IN
  /\ Pending(r)
  /\ req[r].ep = "by_id"
  /\ \E rows \in RowSeqs(MaxRows) :
       LET res == ById(k, req[r].input.v, rows) IN
       /\ calls' = [calls EXCEPT ![r] = Settled(@, "ok", rows)]
       /\ IF res.ok
          THEN /\ Respond(r, HTTP_200, res.v)
               /\ UNCHANGED logs
          ELSE /\ logs' = [logs EXCEPT ![r] = @ \o << <<ErrorPrefix("by_id", k)>> \o NotFoundText(k, "{id}") >>]
               /\ Respond(r, HTTP_404, Detail(NotFoundText(k, "{id}")))
  /\ UNCHANGED <<req, session, work>>
  /\ UNCHANGED listVars
  /\ UNCHANGED mgrVars

\* collect() of a list or fetch-by-id query raises: the service logs and
\* re-raises, the handler logs and answers HTTPException(500, detail=f"...{str(e)}")
FetchFailed(r) ==
  LET ep == req[r].ep
      k == req[r].kind
      failed == Settled(calls[r], "failed", <<>>) IN
  /\ Pending(r)
  /\ ep \in {"list", "by_id"}
  /\ IF ServiceOnError(ep, Len(calls[r])) = "retry"
     THEN /\ calls' = [calls EXCEPT ![r] = Append(failed, Call(calls[r][Len(calls[r])].sql))]
          /\ UNCHANGED <<rpc, loop, resp, logs>>
     ELSE /\ calls' = [calls EXCEPT ![r] = failed]
          /\ logs' = [logs EXCEPT ![r] = @ \o << <<ErrorPrefix(ep, k), ExcText>>,
                                                 <<ErrorPrefix(ep, k), ExcText>> >>]
          /\ Respond(r, HTTP_500, Detail(<<ErrorPrefix(ep, k), ExcText>>))
  /\ UNCHANGED <<req, session, work>>
  /\ UNCHANGED listVars
  /\ UNCHANGED mgrVars

\* get_policy_summary / get_claims_analytics after the call at the end of cs
\* is over: the next query of the method, or the response of the handler
AnalyticsContinue(r, cs) ==
  LET k == req[r].kind
      a == Analytics(k, ResultsOf(cs)) IN
  IF Len(cs) < Len(AnalyticsQueries(k))
  THEN /\ calls' = [calls EXCEPT ![r] = Append(cs, Call(AnalyticsQueries(k)[Len(cs) + 1]))]
       /\ UNCHANGED <<rpc, loop, resp, logs>>
  ELSE /\ calls' = [calls EXCEPT ![r] = cs]
       /\ IF ResponseModelValid(a)
          THEN /\ Respond(r, HTTP_200, a)
               /\ UNCHANGED logs
          ELSE /\ logs' = [logs EXCEPT ![r] = @ \o << <<ErrorPrefix("analytics", k), ValidationText>> >>]
               /\ Respond(r, HTTP_500, Detail(<<ErrorPrefix("analytics", k), ValidationText>>))

\* get_policy_summary / get_claims_analytics up to the first collect()
AnalyticsCalled(r) ==
  /\ rpc[r] = "ready" /\ loop = r
  /\ req[r].ep = "analytics"
  /\ calls' = [calls EXCEPT ![r] = Append(@, Call(AnalyticsQueries(req[r].kind)[1]))]
  /\ rpc' = [rpc EXCEPT ![r] = "executing"]
  /\ UNCHANGED <<req, loop, session, work, resp, logs>>
  /\ UNCHANGED listVars
  /\ UNCHANGED mgrVars

\* one collect() of the method returns
AnalyticsReturned(r) ==
  LET q == calls[r][Len(calls[r])].sql
      rows == IF q.op = "totals" THEN TotalsRows(req[r].input) ELSE GroupRows(q, req[r].input) IN
  /\ Pending(r)
  /\ req[r].ep = "analytics"
  /\ AnalyticsContinue(r, Settled(calls[r], "ok", rows))
  /\ UNCHANGED <<req, session, work>>
  /\ UNCHANGED listVars
  /\ UNCHANGED mgrVars

\* one collect() of the method raises: the service logs and re-raises, the
\* handler logs and answers HTTPException(500, detail=f"...{str(e)}")
AnalyticsFailed(r) ==
  LET k == req[r].kind
      failed == Settled(calls[r], "failed", <<>>) IN
  /\ Pending(r)
  /\ req[r].ep = "analytics"
  /\ IF ServiceOnError("analytics", Len(calls[r])) = "continue"
     THEN AnalyticsContinue(r, failed)
     ELSE /\ calls' = [calls EXCEPT ![r] = failed]
          /\ logs' = [logs EXCEPT ![r] = @ \o << <<"Error fetching analytics: ", ExcText>>,
                                                 <<ErrorPrefix("analytics", k), ExcText>> >>]
          /\ Respond(r, HTTP_500, Detail(<<ErrorPrefix("analytics", k), ExcText>>))
  /\ UNCHANGED <<req, session, work>>
  /\ UNCHANGED listVars
  /\ UNCHANGED mgrVars

\* get_auth_session: session_manager.get_sync_session(), run in the thread
\* pool, creates the session when there is none
LoginSessionObtained(r) ==
  /\ rpc[r] = "new"
  /\ req[r].ep = "login"
  /\ session' = "open"
  /\ work' = [work EXCEPT ![r] = @ \cup {"session"}
                                   \cup (IF session = "none" THEN {"session_created"} ELSE {})]
  /\ rpc' = [rpc EXCEPT ![r] = "ready"]
  /\ UNCHANGED <<req, loop, calls, resp, logs>>
  /\ UNCHANGED listVars
  /\ UNCHANGED mgrVars

\* _create_session raises in get_sync_session: general_exception_handler
LoginSessionFailed(r) ==
  /\ rpc[r] = "new"
  /\ req[r].ep = "login"
  /\ session = "none"
  /\ logs' = [logs EXCEPT ![r] = @ \o << <<"Failed to create Snowpark session: ", ConnectText>>,
                                         <<"Unhandled exception: ", ConnectText>> >>]
  /\ Respond(r, HTTP_500, Detail(<<"Internal server error">>))
  /\ UNCHANGED <<req, session, calls, work>>
  /\ UNCHANGED listVars
  /\ UNCHANGED mgrVars

\* login -> authenticate_user up to the collect() of the user lookup
LoginCalled(r) ==
  /\ rpc[r] = "ready" /\ loop = 0
  /\ req[r].ep = "login"
  /\ calls' = [calls EXCEPT ![r] = Append(@, Call(UserLookup(req[r].input.username)))]
  /\ rpc' = [rpc EXCEPT ![r] = "executing"]
  /\ loop' = r
  /\ UNCHANGED <<req, session, work, resp, logs>>
  /\ UNCHANGED listVars
  /\ UNCHANGED mgrVars

\* the lookup returns: no row or a wrong password -> None -> 401, else the
\* LAST_LOGIN update is run
LoginLookupReturned(r) ==
  LET rows == UserRows(calls[r][1].sql) IN
  /\ Pending(r)
  /\ req[r].ep = "login"
  /\ Len(calls[r]) = 1
  /\ IF rows = <<>> \/ ~verify_password(req[r].input.password, rows[1].PASSWORD_HASH)
     THEN /\ calls' = [calls EXCEPT ![r] = Settled(@, "ok", rows)]
          /\ Respond(r, HTTP_401, Detail(<<"Incorrect username or password">>))
     ELSE /\ calls' = [calls EXCEPT ![r] =
                         Append(Settled(@, "ok", rows), Call(TouchLogin(rows[1].USER_ID)))]
          /\ UNCHANGED <<rpc, loop, resp>>
  /\ UNCHANGED <<req, session, work, logs>>
  /\ UNCHANGED listVars
  /\ UNCHANGED mgrVars

\* the lookup raises: authenticate_user logs and returns None, login answers
\* 401 as for a wrong password
LoginLookupFailed(r) ==
  /\ Pending(r)
  /\ req[r].ep = "login"
  /\ Len(calls[r]) = 1
  /\ calls' = [calls EXCEPT ![r] = Settled(@, "failed", <<>>)]
  /\ logs' = [logs EXCEPT ![r] = @ \o << <<"Authentication error for user: ", ExcText>> >>]
  /\ IF ServiceOnError("login", 1) = "return_none"
     THEN Respond(r, HTTP_401, Detail(<<"Incorrect username or password">>))
     ELSE Respond(r, HTTP_500, Detail(<<"Internal server error during authentication">>))
  /\ UNCHANGED <<req, session, work>>
  /\ UNCHANGED listVars
  /\ UNCHANGED mgrVars

\* the LAST_LOGIN update returns or raises (logged as a warning, ignored):
\* the token is created and returned
LoginTouched(r) ==
  /\ Pending(r)
  /\ req[r].ep = "login"
  /\ Len(calls[r]) = 2
  /\ \E out \in {"ok", "failed"} :
       /\ calls' = [calls EXCEPT ![r] = Settled(@, out, <<>>)]
       /\ logs' = [logs EXCEPT ![r] =
                     IF out = "failed"
                     THEN @ \o << <<"Failed to update last login: ", ExcText>> >>
                     ELSE @]
  /\ Respond(r, HTTP_200, TokenResponse(calls[r][1].result[1]))
  /\ UNCHANGED <<req, session, work>>
  /\ UNCHANGED listVars
  /\ UNCHANGED mgrVars

\* one request, on any endpoint, with any credential
ApiInit ==
  /\ ListIdle
  /\ \/ \E ep \in DataEndpoints : \E k \in Kinds : \E c \in Credentials :
          \E i \in Inputs(ep, k) : req = <<Request(ep, k, c, i)>>
     \/ \E li \in LoginInputs : req = <<Request("login", "auth", NoCredential, li)>>
  /\ rpc = <<"new">>
  /\ loop = 0
  /\ session \in {"none", "open"}
  /\ calls = << <<>> >>
  /\ work = << {} >>
  /\ resp = <<NoResponse>>
  /\ logs = << <<>> >>

ApiNext ==
  \/ \E r \in DOMAIN req : BearerRefused(r)
  \/ \E r \in DOMAIN req : CredentialRejected(r)
  \/ \E r \in DOMAIN req : CredentialAccepted(r)
  \/ \E r \in DOMAIN req : SessionObtained(r)
  \/ \E r \in DOMAIN req : SessionFailed(r)
  \/ \E r \in DOMAIN req : ListRejected(r)
  \/ \E r \in DOMAIN req : ListFiltersFailed(r)
  \/ \E r \in DOMAIN req : ListCalled(r)
  \/ \E r \in DOMAIN req : ListReturned(r)
  \/ \E r \in DOMAIN req : ByIdCalled(r)
  \/ \E r \in DOMAIN req : ByIdReturned(r)
  \/ \E r \in DOMAIN req : FetchFailed(r)
  \/ \E r \in DOMAIN req : AnalyticsCalled(r)
  \/ \E r \in DOMAIN req : AnalyticsReturned(r)
  \/ \E r \in DOMAIN req : AnalyticsFailed(r)
  \/ \E r \in DOMAIN req : LoginSessionObtained(r)
  \/ \E r \in DOMAIN req : LoginSessionFailed(r)
  \/ \E r \in DOMAIN req : LoginCalled(r)
  \/ \E r \in DOMAIN req : LoginLookupReturned(r)
  \/ \E r \in DOMAIN req : LoginLookupFailed(r)
  \/ \E r \in DOMAIN req : LoginTouched(r)

ApiSpec == ApiInit /\ [][ApiNext]_vars

(***************************************************************************)
(* Vocabulary of the properties of ApiSpec.                                *)
(***************************************************************************)
Done(r) == rpc[r] = "done"
IsData(r) == req[r].ep \in {"list", "by_id", "analytics"}
FailedCalls(r) == {i \in 1..Len(calls[r]) : calls[r][i].out = "failed"}
OkCalls(r) == {i \in 1..Len(calls[r]) : calls[r][i].out = "ok"}

(***************************************************************************)
(* C12: on every data endpoint a request whose bearer credential is        *)
(* missing, invalid (not signed by the server), expired, or whose payload  *)
(* lacks user_id or username is answered as unauthorized, and for that     *)
(* request no filter specification is built, no session is obtained or     *)
(* created and no query is compiled or executed.  Unauthorized is status   *)
(* 401; a request with no credentials at all is refused by the HTTPBearer  *)
(* scheme before get_current_user runs, with the scheme's own status.      *)
(***************************************************************************)
C12_BadCredential(r) ==
  \/ req[r].cred.t = "missing"
  \/ /\ req[r].cred.t = "token"
     /\ \/ req[r].cred.sig # "server"
        \/ req[r].cred.expired
        \/ req[r].cred.payload.user_id.t = "none"
        \/ req[r].cred.payload.username.t = "none"

C13_FirstRowOrNotFound ==
  \A r \in DOMAIN req :
    req[r].ep = "by_id" /\ Done(r) /\ OkCalls(r) # {} =>
      LET rows == calls[r][1].result IN
      /\ rows = <<>> => resp[r].status = 404
      /\ rows # <<>> =>
           /\ resp[r].status = 200
           /\ resp[r].body = serialize_row(req[r].kind, rows[1])

C13_Witness ==
  \E r \in DOMAIN req :
    /\ req[r].ep = "by_id" /\ req[r].kind = "claims" /\ Done(r)
    /\ Len(calls[r]) = 1
    /\ calls[r][1].out = "ok"
    /\ calls[r][1].result = <<RowOther, RowFull>>
    /\ resp[r].status = 200
    /\ resp[r].body = serialize_row("claims", RowOther)
    /\ resp[r].body # serialize_row("claims", RowFull)

(***************************************************************************)
(* C14: for every row the executor returns, with any column names,         *)
(* _serialize_row gives a mapping with the same keys in the same order, in *)
(* which every date or timestamp is replaced by its ISO-8601 string and    *)
(* every other value (integer, float, string, boolean, null) is unchanged; *)
(* the policy and the claims serializer give the same result.              *)
(***************************************************************************)
C14_SameValue(a, b) == a.t = b.t /\ (a.t = "none" \/ a.v = b.v)

\* s is the ISO-8601 text of the date or timestamp x
C14_IsoOf(x, s) ==
  /\ Len(s) = (IF x.t = "date" THEN 10 ELSE 19)
  /\ IsIsoDate(SubSeq(s, 1, 10))
  /\ ParseDate(SubSeq(s, 1, 10)).v = <<x.v[1], x.v[2], x.v[3]>>
  /\ x.t = "datetime" =>
       /\ s[11] = "T" /\ s[14] = ":" /\ s[17] = ":"
       /\ \A i \in {12, 13, 15, 16, 18, 19} : IsDigit(s[i])
       /\ <<Num2(s, 12), Num2(s, 15), Num2(s, 18)>> = <<x.v[4], x.v[5], x.v[6]>>

C14_Serialized(row, out) ==
  /\ Len(out) = Len(row)
  /\ \A i \in 1..Len(row) :
       /\ out[i][1] = row[i][1]
       /\ IF row[i][2].t \in {"date", "datetime"}
          THEN out[i][2].t = "str" /\ C14_IsoOf(row[i][2], out[i][2].v)
          ELSE C14_SameValue(out[i][2], row[i][2])

C14_SameRow(a, b) ==
  /\ Len(a) = Len(b)
  /\ \A i \in 1..Len(a) : a[i][1] = b[i][1] /\ C14_SameValue(a[i][2], b[i][2])

C14_RowsSerialized ==
  \A r \in DOMAIN req :
    req[r].ep \in {"list", "by_id"} /\ Done(r) /\ resp[r].status = 200 =>
      LET rows == calls[r][1].result IN
      /\ req[r].ep = "list" =>
           /\ Len(resp[r].body) = Len(rows)
           /\ \A i \in 1..Len(rows) : C14_Serialized(rows[i], resp[r].body[i])
      /\ req[r].ep = "by_id" => C14_Serialized(rows[1], resp[r].body)
      /\ \A i \in 1..Len(rows) :
           C14_SameRow(PolicyService_serialize_row(rows[i]),
                       ClaimsService_serialize_row(rows[i]))

C14_Witness ==
  \E r \in DOMAIN req :
    /\ req[r].ep = "list" /\ req[r].kind = "claims" /\ Done(r)
    /\ resp[r].status = 200
    /\ Len(calls[r]) = 1
    /\ calls[r][1].result = <<RowFull, RowOther>>
    /\ resp[r].body[1] =
         << <<"POLICY_ID", PyInt(7)>>,
            <<"CARRIER_NAME", PyStr(s_Smith)>>,
            <<"ANNUALIZED_PREMIUM", PyFloat(1)>>,
            <<"ORIGINAL_EFFECTIVE_DT", PyStr(s_2024_03_15T09_05_00)>>,
            <<"POLICY_SNAPSHOT_DATE", PyStr(d_2024_03_15)>>,
            <<"INSURED_ZIP", None>> >>
    /\ resp[r].body[2][1] = <<"SNAPSHOT_DATE", PyStr(s_1999_12_31)>>
    /\ resp[r].body[2][2] = <<"IS_OPEN", PyBool(TRUE)>>

(***************************************************************************)
(* C15: get_policy_summary and get_claims_analytics are all-or-nothing: if *)
(* any one of their queries fails, the request ends with an error, no      *)
(* query after the failed one is executed and no analytics object, partial *)
(* or defaulted, is returned; an analytics object is returned only when    *)
(* every query of the method was executed and succeeded.                   *)
(***************************************************************************)
C15_QueryCount(k) == IF k = "policy" THEN 3 ELSE 4

C15_AllOrNothing ==
  \A r \in DOMAIN req :
    req[r].ep = "analytics" =>
      /\ FailedCalls(r) # {} =>
           /\ FailedCalls(r) = {Len(calls[r])}
           /\ Done(r)
           /\ resp[r].status = 500
           /\ DOMAIN resp[r].body = {"detail"}
      /\ Done(r) /\ resp[r].status = 200 =>
           /\ Len(calls[r]) = C15_QueryCount(req[r].kind)
           /\ OkCalls(r) = 1..Len(calls[r])
           /\ Len(resp[r].body.breakdowns) = Len(calls[r]) - 1

C15_Witness ==
  \E r \in DOMAIN req :
    /\ req[r].ep = "analytics" /\ req[r].kind = "claims"
    /\ Len(calls[r]) = 3
    /\ OkCalls(r) = {1, 2} /\ FailedCalls(r) = {3}
    /\ Done(r) /\ resp[r].status = 500

(***************************************************************************)
(* C16, as stated: in both analytics calls the by-state breakdown has at   *)
(* most 20 groups however many distinct states the data has, and every     *)
(* uncapped breakdown (policies by carrier; claims by decision and by      *)
(* carrier) contains exactly the groups whose key is non-null: all of them *)
(* and no group with a null key.                                           *)
(***************************************************************************)
C16_ByState(q) == q.col \in {"INSURED_STATE", "LIFE_STATE"}

C16_CappedAndNonNull ==
  \A r \in DOMAIN req :
    req[r].ep = "analytics" =>
      \A i \in OkCalls(r) :
        LET q == calls[r][i].sql
            groups == calls[r][i].result IN
        q.op = "group" =>
          /\ C16_ByState(q) => Len(groups) <= 20
          /\ ~C16_ByState(q) =>
               /\ Len(groups) = req[r].input.groups
               /\ \A j \in 1..Len(groups) : groups[j][1].t # "none"

(***************************************************************************)
(* C17: a failed query is never retried: a list or fetch-by-id request     *)
(* invokes the executor at most once, and when that invocation fails the   *)
(* request ends with an error to the caller, with no further executor call *)
(* and no rows returned.                                                   *)
(***************************************************************************)
C17_NoRetry ==
  \A r \in DOMAIN req :
    req[r].ep \in {"list", "by_id"} =>
      /\ Len(calls[r]) <= 1
      /\ FailedCalls(r) # {} =>
           /\ Done(r)
           /\ resp[r].status >= 400
           /\ DOMAIN resp[r].body = {"detail"}

C17_Witness ==
  \E r \in DOMAIN req :
    /\ req[r].ep = "list"
    /\ Len(calls[r]) = 1 /\ calls[r][1].out = "failed"
    /\ Done(r) /\ resp[r].status = 500

(***************************************************************************)
(* C18, as stated: whenever the executor fails while serving a request     *)
(* (list, fetch-by-id, analytics, or the user lookup of login) the caller  *)
(* receives a server error (5xx), never not-found (404), a validation      *)
(* error (422) or unauthorized (401).                                      *)
(***************************************************************************)
C18_ExecutorFailed(r) ==
  IF req[r].ep = "login" THEN 1 \in FailedCalls(r) ELSE FailedCalls(r) # {}

C18_ExecutorFailureIsServerError ==
  \A r \in DOMAIN req :
    Done(r) /\ C18_ExecutorFailed(r) =>
      /\ resp[r].status >= 500
      /\ resp[r].status \notin {401, 404, 422}

(***************************************************************************)
(* C19, as stated: the response sent for an execution failure carries only *)
(* a generic message: the text of the executor's exception appears in the  *)
(* log and never in the response body, on any endpoint.                    *)
(***************************************************************************)
C19_InText(parts, text) == \E i \in 1..Len(parts) : parts[i] = text

C19_ExceptionTextOnlyInLog ==
  \A r \in DOMAIN req :
    Done(r) /\ FailedCalls(r) # {} /\ resp[r].status >= 400 =>
      /\ ~C19_InText(resp[r].body.detail, ExcText)
      /\ \E i \in 1..Len(logs[r]) : C19_InText(logs[r][i], ExcText)

(***************************************************************************)
(* Several authorized list requests received by the one server process:    *)
(* uvicorn runs the application on a single event loop.                    *)
(***************************************************************************)
GoodToken == Token("server", FALSE, GoodPayload)
\* a token without role and carrier: the caller is a VIEWER of carrier ALL
ViewerToken == Token("server", FALSE, Payload(PyStr(s_u1), PyStr(s_alice), None, None))

\* two list requests are unrelated: different record types or different filters
LoopRequests ==
  {Request("list", k, GoodToken, [QueryDefaults(k) EXCEPT !["limit"] = MinLimit]) : k \in Kinds}
  \cup {Request("list", k, GoodToken,
                 [QueryDefaults(k) EXCEPT !["limit"] = MinLimit,
                                          !["carrier_name"] = PyStr(s_CA_NY)]) : k \in Kinds}
  \cup {Request("list", k, ViewerToken,
                 [QueryDefaults(k) EXCEPT !["limit"] = MinLimit,
                                          !["carrier_name"] = PyStr(s_CA_NY)]) : k \in Kinds}

LoopInit ==
  /\ ListIdle
  /\ req \in [1..MaxReq -> LoopRequests]
  /\ rpc = [r \in 1..MaxReq |-> "new"]
  /\ loop = 0
  /\ session = "none"
  /\ calls = [r \in 1..MaxReq |-> <<>>]
  /\ work = [r \in 1..MaxReq |-> {}]
  /\ resp = [r \in 1..MaxReq |-> NoResponse]
  /\ logs = [r \in 1..MaxReq |-> <<>>]

LoopNext ==
  \/ \E r \in DOMAIN req : CredentialAccepted(r)
  \/ \E r \in DOMAIN req : SessionObtained(r)
  \/ \E r \in DOMAIN req : SessionFailed(r)
  \/ \E r \in DOMAIN req : ListCalled(r)
  \/ \E r \in DOMAIN req : ListReturned(r)
  \/ \E r \in DOMAIN req : FetchFailed(r)

LoopSpec == LoopInit /\ [][LoopNext]_vars

(***************************************************************************)
(* C20, as stated: two unrelated data requests can have their queries in   *)
(* flight at the same time: while one request's handler is blocked in the  *)
(* executor call, another request that was received can start (its first   *)
(* dependency runs), so no request waits for an unrelated request's query  *)
(* to finish.                                                              *)
(***************************************************************************)
C20_OthersRunWhileOneExecutes ==
  \A a \in DOMAIN req : \A b \in DOMAIN req :
    a # b /\ rpc[a] = "executing" /\ rpc[b] = "new" => ENABLED CredentialAccepted(b)

(***************************************************************************)
(* C21: compilation is total.  For every specification the validator       *)
(* accepts, blank column names included, the builder returns a compiled    *)
(* query: what it returns for the filters handed to the service is a       *)
(* source table followed by directives only (nothing was raised in place   *)
(* of one), and the compiled request holds that query and no error status. *)
(***************************************************************************)
DirectiveKinds == {"table", "filter", "select", "sort", "limit", "offset"}

C21_CompilationTotal ==
  /\ pc = "service" =>
       LET q == Build(kind, filters)
       IN /\ Len(q) >= 2
          /\ q[1].d = "table"
          /\ \A i \in 1..Len(q) : q[i].d \in DirectiveKinds
  /\ Compiled => query = Build(kind, filters) /\ status = 0

C21_Witness ==
  /\ Compiled
  /\ filters.fields = PyStr(s_comma_sp)
  /\ filters.sort_by = PyStr(s_sp)
  /\ Projections(query) = <<Select(<<s_empty, s_empty>>)>>
  /\ Sorts(query) = <<Sort(s_sp, FALSE)>>

(***************************************************************************)
(* C29: in every compiled query the directives appear in this order:       *)
(* source table, all predicates, then the projection (if any), then the    *)
(* sort, then the limit, then the offset (if any); the sort comes after    *)
(* the projection and the limit before the offset.                         *)
(***************************************************************************)
Rank(d) ==
  CASE d.d = "table" -> 1
    [] d.d = "filter" -> 2
    [] d.d = "select" -> 3
    [] d.d = "sort" -> 4
    [] d.d = "limit" -> 5
    [] d.d = "offset" -> 6

C29_DirectiveOrder ==
  Compiled =>
    /\ query[1].d = "table"
    /\ \A i, j \in 1..Len(query) :
         i < j => /\ Rank(query[i]) <= Rank(query[j])
                  /\ Rank(query[i]) = Rank(query[j]) => query[i].d = "filter"
    /\ \A i, j \in 1..Len(query) :
         /\ (query[i].d = "select" /\ query[j].d = "sort") => i < j
         /\ (query[i].d = "limit" /\ query[j].d = "offset") => i < j

C29_Witness ==
  /\ Compiled
  /\ kind = "claims"
  /\ filters.fields = PyStr(s_policy_id)
  /\ filters.offset = 25
  /\ query = <<Table("CLAIMS_TPA_FEE_WORKSHEET_SNAPSHOT_FACT"), Select(<<s_POLICY_ID>>),
               Sort(s_RFB_ID, FALSE), Limit(DefaultLimit), Offset(25)>>

(***************************************************************************)
(* Paging.  A list request whose limit and offset vary is compiled and     *)
(* its DataFrame collected.  The warehouse's answer to the query without   *)
(* limit and offset (the filtered, sorted result) is work, its rows named  *)
(* by their position; every DataFrame method works on the frame the        *)
(* previous method returned, so limit and offset act in the order in which *)
(* the builder chained them.                                               *)
(***************************************************************************)
MaxPageLimit == 2
MaxPageOffset == 3
MaxResult == 5

\* the frame a directive returns when applied to the frame rows
Apply(d, rows) ==
  CASE d.d = "limit" -> SubSeq(rows, 1, Min(d.n, Len(rows)))
    [] d.d = "offset" -> SubSeq(rows, d.n + 1, Len(rows))
    [] OTHER -> rows

\* df.collect(): the directives of the plan applied one after the other
RECURSIVE Collect(_, _)
Collect(q, rows) ==
  IF q = <<>> THEN rows ELSE Collect(Tail(q), Apply(Head(q), rows))

PageInit ==
  /\ kind \in Kinds
  /\ \E l \in MinLimit..MaxPageLimit : \E o \in MinOffset..MaxPageOffset :
       params = [QueryDefaults(kind) EXCEPT !["limit"] = l, !["offset"] = o]
  /\ args = NoValue
  /\ filters = NoValue
  /\ query = <<>>
  /\ pc = "received"
  /\ status = 0
  /\ req = <<>> /\ rpc = <<>> /\ loop = 0 /\ session = "open"
  /\ calls = <<>> /\ logs = <<>>
  /\ \E n \in 0..MaxResult : work = [i \in 1..n |-> i]
  /\ mgr = NoValue /\ sessions = <<>> /\ callers = <<>>
  /\ resp = <<>>

\* results = df.collect(); the rows go into the response
PageFetched ==
  /\ pc = "compiled"
  /\ resp' = Collect(query, work)
  /\ status' = HTTP_200
  /\ pc' = "fetched"
  /\ UNCHANGED <<kind, params, args, filters, query>>
  /\ UNCHANGED <<req, rpc, loop, session, calls, work, logs>>
  /\ UNCHANGED mgrVars

PageNext ==
  \/ ParamsAccepted
  \/ FiltersBuilt
  \/ CompilePolicy
  \/ CompileClaims
  \/ PageFetched

PageSpec == PageInit /\ [][PageNext]_vars

(***************************************************************************)
(* C30, as stated: a list request with limit L and offset O returns the    *)
(* rows at positions O+1 .. O+L of the filtered, sorted result (fewer only *)
(* when the result has fewer than O+L rows), so the page has at most L     *)
(* rows and consecutive pages O = 0, L, 2L, ... cover the whole result.    *)
(***************************************************************************)
C30_PageIsWindow ==
  pc = "fetched" =>
    resp = SubSeq(work, filters.offset + 1, Min(filters.offset + filters.limit, Len(work)))

(***************************************************************************)
(* The session manager (SnowparkSessionManager, one instance per process). *)
(* mgr holds its fields: session (0 for None, else the index of a created  *)
(* session in sessions) and lock (0 when free, else the coroutine that     *)
(* holds the asyncio lock).  Every caller makes one call.  Coroutines      *)
(* (get_session of the data dependencies, close of the shutdown handler,   *)
(* and the get_sync_session of /ready, an async def) run on the event      *)
(* loop's thread, one at a time, and none of them awaits inside its body;  *)
(* the get_sync_session of the login dependency runs in a worker thread of *)
(* the pool and interleaves with everything else.                          *)
(***************************************************************************)
MaxCallers == 3

s_API_SERVICE_ROLE ==
  <<"A","P","I","_","S","E","R","V","I","C","E","_","R","O","L","E">>

\* Session.builder.configs(connection_params).create(): the session runs
\* under the role of the settings; nothing in it names a carrier.  closed
\* tells whether the manager has called close() on it
NewSession == [role |-> PyStr(s_API_SERVICE_ROLE), carrier |-> None, closed |-> FALSE]

get_user_context_for_session(u) == [role |-> u.role, carrier |-> u.carrier]

UserContexts ==
  {get_user_context_for_session(get_current_user(t).v) : t \in {GoodToken, ViewerToken}}

\* one call on the manager: the method, the thread it runs on, its argument
ManagerCall(op, on, ctx) ==
  [op |-> op, on |-> on, ctx |-> ctx, pc |-> "start", got |-> 0, out |-> "none"]

ManagerCalls ==
  {ManagerCall("get_session", "loop", c) : c \in UserContexts}
  \cup {ManagerCall("get_sync_session", "pool", None),
        ManagerCall("get_sync_session", "loop", None),
        ManagerCall("close", "loop", None)}

\* the event loop runs one coroutine at a time, up to its end when it never awaits
LoopFree ==
  \A c \in DOMAIN callers :
    callers[c].on = "loop" => callers[c].pc \in {"start", "returned", "raised"}

CanStart(c) == callers[c].pc = "start" /\ (callers[c].on = "loop" => LoopFree)

\* mutant: the role and carrier of the caller are set on the session
WithUserContext_Applied(s, ctx) == [s EXCEPT !.role = ctx.role, !.carrier = ctx.carrier]

\* if user_context: role = ...; carrier = ...; logger.info(...)
WithUserContext(s, ctx) == s

\* mutant: the lock stays with the coroutine that leaves the block
ReleaseLock_Kept(m) == m

\* the end of 'async with self._lock', by return or by exception
ReleaseLock(m) == [m EXCEPT !.lock = 0]

\* mutant: the field is cleared only when the session's close succeeded
CloseFinally_OnSuccessOnly(m, ok) == IF ok THEN [m EXCEPT !.session = 0] ELSE m

\* finally: self._session = None
CloseFinally(m, ok) == [m EXCEPT !.session = 0]

Step(c, to, got) == [callers EXCEPT ![c].pc = to, ![c].got = got]

MgrInit ==
  /\ kind = "policy" /\ params = NoValue /\ args = NoValue /\ filters = NoValue
  /\ query = <<>> /\ pc = "idle" /\ status = 0
  /\ mgr = [session |-> 0, lock |-> 0]
  /\ sessions = <<>>
  /\ req = <<>> /\ rpc = <<>> /\ loop = 0 /\ session = "none"
  /\ calls = <<>> /\ work = <<>> /\ resp = <<>> /\ logs = <<>>
  /\ callers \in [1..MaxCallers -> ManagerCalls]

\* get_session: async with self._lock: if not self._session:
GetSessionEnter(c) ==
  /\ callers[c].op = "get_session" /\ CanStart(c)
  /\ mgr.lock = 0
  /\ mgr' = [mgr EXCEPT !.lock = c]
  /\ callers' = Step(c, IF mgr.session = 0 THEN "creating" ELSE "have", 0)
  /\ UNCHANGED sessions
  /\ UNCHANGED listVars /\ UNCHANGED apiVars

\* self._session = self._create_session(), the creation succeeds
GetSessionCreated(c) ==
  /\ callers[c].op = "get_session" /\ callers[c].pc = "creating"
  /\ sessions' = Append(sessions, NewSession)
  /\ mgr' = [mgr EXCEPT !.session = Len(sessions) + 1]
  /\ callers' = Step(c, "have", 0)
  /\ UNCHANGED listVars /\ UNCHANGED apiVars

\* _create_session logs and re-raises: the exception leaves get_session
GetSessionCreateFailed(c) ==
  /\ callers[c].op = "get_session" /\ callers[c].pc = "creating"
  /\ mgr' = ReleaseLock(mgr)
  /\ callers' = Step(c, "raised", 0)
  /\ UNCHANGED sessions
  /\ UNCHANGED listVars /\ UNCHANGED apiVars

\* if user_context: log it; return self._session
GetSessionReturn(c) ==
  /\ callers[c].op = "get_session" /\ callers[c].pc = "have"
  /\ sessions' = IF callers[c].ctx # None /\ mgr.session # 0
                 THEN [sessions EXCEPT ![mgr.session] = WithUserContext(@, callers[c].ctx)]
                 ELSE sessions
  /\ mgr' = ReleaseLock(mgr)
  /\ callers' = Step(c, "returned", mgr.session)
  /\ UNCHANGED listVars /\ UNCHANGED apiVars

\* get_sync_session: if not self._session:
SyncEnter(c) ==
  /\ callers[c].op = "get_sync_session" /\ CanStart(c)
  /\ callers' = Step(c, IF mgr.session = 0 THEN "creating" ELSE "have", 0)
  /\ UNCHANGED <<mgr, sessions>>
  /\ UNCHANGED listVars /\ UNCHANGED apiVars

\* self._session = self._create_session(), the creation succeeds
SyncCreated(c) ==
  /\ callers[c].op = "get_sync_session" /\ callers[c].pc = "creating"
  /\ sessions' = Append(sessions, NewSession)
  /\ mgr' = [mgr EXCEPT !.session = Len(sessions) + 1]
  /\ callers' = Step(c, "have", 0)
  /\ UNCHANGED listVars /\ UNCHANGED apiVars

\* _create_session logs and re-raises
SyncCreateFailed(c) ==
  /\ callers[c].op = "get_sync_session" /\ callers[c].pc = "creating"
  /\ callers' = Step(c, "raised", 0)
  /\ UNCHANGED <<mgr, sessions>>
  /\ UNCHANGED listVars /\ UNCHANGED apiVars

\* return self._session: the field is read again
SyncReturn(c) ==
  /\ callers[c].op = "get_sync_session" /\ callers[c].pc = "have"
  /\ sessions' = IF callers[c].ctx # None /\ mgr.session # 0
                 THEN [sessions EXCEPT ![mgr.session] = WithUserContext(@, callers[c].ctx)]
                 ELSE sessions
  /\ callers' = Step(c, "returned", mgr.session)
  /\ UNCHANGED mgr
  /\ UNCHANGED listVars /\ UNCHANGED apiVars

\* close: async with self._lock: if self._session: (false)
CloseNoSession(c) ==
  /\ callers[c].op = "close" /\ CanStart(c)
  /\ mgr.lock = 0 /\ mgr.session = 0
  /\ mgr' = ReleaseLock([mgr EXCEPT !.lock = c])
  /\ callers' = Step(c, "returned", 0)
  /\ UNCHANGED sessions
  /\ UNCHANGED listVars /\ UNCHANGED apiVars

\* close: if self._session: try: self._session.close() is called
CloseEnter(c) ==
  /\ callers[c].op = "close" /\ CanStart(c)
  /\ mgr.lock = 0 /\ mgr.session # 0
  /\ mgr' = [mgr EXCEPT !.lock = c]
  /\ callers' = Step(c, "closing", mgr.session)
  /\ UNCHANGED sessions
  /\ UNCHANGED listVars /\ UNCHANGED apiVars

\* the session's close returns or raises (logged); finally the field is cleared
CloseDone(c) ==
  /\ callers[c].op = "close" /\ callers[c].pc = "closing"
  /\ \E ok \in BOOLEAN :
       /\ mgr' = ReleaseLock(CloseFinally(mgr, ok))
       /\ callers' = [callers EXCEPT ![c].pc = "returned",
                                     ![c].out = IF ok THEN "closed" ELSE "error logged"]
  /\ sessions' = [sessions EXCEPT ![callers[c].got].closed = TRUE]
  /\ UNCHANGED listVars /\ UNCHANGED apiVars

MgrNext ==
  \/ \E c \in DOMAIN callers : GetSessionEnter(c)
  \/ \E c \in DOMAIN callers : GetSessionCreated(c)
  \/ \E c \in DOMAIN callers : GetSessionCreateFailed(c)
  \/ \E c \in DOMAIN callers : GetSessionReturn(c)
  \/ \E c \in DOMAIN callers : SyncEnter(c)
  \/ \E c \in DOMAIN callers : SyncCreated(c)
  \/ \E c \in DOMAIN callers : SyncCreateFailed(c)
  \/ \E c \in DOMAIN callers : SyncReturn(c)
  \/ \E c \in DOMAIN callers : CloseNoSession(c)
  \/ \E c \in DOMAIN callers : CloseEnter(c)
  \/ \E c \in DOMAIN callers : CloseDone(c)

MgrSpec == MgrInit /\ [][MgrNext]_vars

\* property vocabulary
Getters == {c \in DOMAIN callers : callers[c].op \in {"get_session", "get_sync_session"}}
Returned(c) == callers[c].pc = "returned"

(***************************************************************************)
(* C22: obtaining the shared session with a user context stores nothing of *)
(* the caller's role or carrier on the session or the manager.  A step of  *)
(* get_session or get_sync_session either creates the session (lazily,    *)
(* with the configured role) or leaves the sessions and the manager's      *)
(* session field as they are, so every session a later caller queries     *)
(* carries the configured role and no carrier.                             *)
(***************************************************************************)
C22_Configured(s) == s.role = PyStr(s_API_SERVICE_ROLE) /\ s.carrier = None

C22_GetterFrame(c) ==
  callers'[c] # callers[c] =>
    \/ sessions' = sessions /\ mgr'.session = mgr.session
    \/ /\ callers[c].pc = "creating"
       /\ sessions' = Append(sessions, NewSession)
       /\ mgr'.session = Len(sessions')

C24_CallerContextOnSession ==
  \A c \in Getters :
    (Returned(c) /\ callers[c].ctx # None /\ callers[c].got # 0) =>
      /\ sessions[callers[c].got].role = callers[c].ctx.role
      /\ sessions[callers[c].got].carrier = callers[c].ctx.carrier

(***************************************************************************)
(* C26, as stated: under every interleaving of get_session and             *)
(* get_sync_session calls at most one warehouse session is created between *)
(* process start and the first close: _create_session is never entered     *)
(* while another creation is in progress or after a session exists, and    *)
(* every caller receives the same session object.                          *)
(***************************************************************************)
C26_NoCloseYet == \A c \in DOMAIN callers : callers[c].op = "close" => callers[c].pc = "start"

C26_AtMostOneSession ==
  C26_NoCloseYet =>
    /\ Len(sessions) <= 1
    /\ \A a \in Getters : \A b \in Getters :
         (callers[a].pc = "creating" /\ callers[b].pc = "creating") => a = b
    /\ \A a \in Getters : callers[a].pc = "creating" => Len(sessions) = 0
    /\ \A a \in Getters : \A b \in Getters :
         (Returned(a) /\ Returned(b)) => callers[a].got = callers[b].got

(***************************************************************************)
(* C27: after close() returns the manager holds no session, whether the    *)
(* session's close succeeded or raised (the error is logged, the call      *)
(* returns); close() on a manager without session changes nothing; and     *)
(* outside a running close the manager never holds a session that close    *)
(* was called on, so a later get_session or get_sync_session creates a     *)
(* fresh one.                                                              *)
(***************************************************************************)
C27_Closers == {c \in DOMAIN callers : callers[c].op = "close"}

C27_CloseStep(c) ==
  (callers[c].pc # "returned" /\ callers'[c].pc = "returned") =>
    /\ mgr'.session = 0 /\ mgr'.lock = 0
    /\ callers[c].pc = "start" => (mgr' = mgr /\ sessions' = sessions)

C27_CloseLeavesNoSession ==
  /\ [][\A c \in C27_Closers : C27_CloseStep(c)]_vars
  /\ []((\A c \in C27_Closers : callers[c].pc # "closing") =>
          (mgr.session = 0 \/ ~sessions[mgr.session].closed))
  /\ [](\A c \in C27_Closers : callers[c].pc # "raised")

C27_Witness ==
  \E k \in C27_Closers : \E c \in Getters :
    /\ Returned(k) /\ callers[k].out = "error logged"
    /\ Returned(c)
    /\ callers[c].got # 0 /\ callers[c].got # callers[k].got
    /\ sessions[callers[k].got].closed
    /\ ~sessions[callers[c].got].closed
    /\ mgr.session = callers[c].got

(***************************************************************************)
(* C28: when session creation fails inside get_session the error reaches   *)
(* the caller, the failing call leaves the manager's session field as it   *)
(* was (no session is stored) and the lock free; the lock is only ever     *)
(* held by a coroutine that is inside its block, so a later get_session    *)
(* enters, attempts creation again and can succeed.                        *)
(***************************************************************************)
C28_Async == {c \in DOMAIN callers : callers[c].op = "get_session"}

C28_FailStep(c) ==
  (callers[c].pc = "creating" /\ callers'[c].pc = "raised") =>
    /\ mgr'.session = mgr.session
    /\ mgr'.lock = 0
    /\ sessions' = sessions

C28_FailedCreationLeavesNothing ==
  /\ [][\A c \in C28_Async : C28_FailStep(c)]_vars
  /\ [](mgr.lock # 0 =>
          /\ mgr.lock \in DOMAIN callers
          /\ callers[mgr.lock].pc \in {"creating", "have", "closing"})
  /\ [](\A c \in C28_Async : callers[c].pc = "raised" => callers[c].got = 0)
  /\ [](mgr.session # 0 => mgr.session \in DOMAIN sessions)

C28_Witness ==
  \E a \in C28_Async : \E b \in C28_Async :
    /\ callers[a].pc = "raised"
    /\ Returned(b) /\ callers[b].got # 0
    /\ Len(sessions) = 1
    /\ mgr.lock = 0

(***************************************************************************)
(* C23: the compiled query is a function of the filter specification       *)
(* alone.  Two requests of the same record type with equal parameters,     *)
(* whoever their callers are and whatever was served before them, hand the *)
(* same query to the executor, and every predicate of a compiled query is  *)
(* on the column of a filter field that the request gave: none is an       *)
(* access-control predicate.                                               *)
(***************************************************************************)
C23_Issued(r) == Len(calls[r]) >= 1

C23_FiltersOf(r) == FiltersOf(req[r].kind, QueryParamsValues(req[r].kind, req[r].input))

C23_FromFilter(r, d) ==
  \E p \in FilterFields(req[r].kind) :
    /\ Present(C23_FiltersOf(r)[p])
    /\ d.col = ColumnOf(req[r].kind, p)

C25_Contains(text, s) ==
  \E i \in 1..(Len(text) - Len(s) + 1) : SubSeq(text, i, i + Len(s) - 1) = s

C25_NoCallerStringInText ==
  \A r \in DOMAIN req : \A i \in 1..Len(calls[r]) :
    LET q == calls[r][i].sql IN
    /\ q.op = "dataframe" => "text" \notin DOMAIN q
    /\ q.op = "user_lookup" =>
         /\ ~C25_Contains(q.text, req[r].input.username)
         /\ \E j \in 1..Len(q.binds) : q.binds[j] = req[r].input.username

====
